---------------------------- MODULE Spec2Model ----------------------------
(***************************************************************************)
(* A model of src/src/parser.py: the metric extractor, the ratio           *)
(* calculator, the sentiment analyzer, the entity extractor and the        *)
(* SECFilingParser pipeline.                                               *)
(*                                                                         *)
(* Text is a sequence of one-character strings.  Python floats are         *)
(* IEEE-754 binary64 values: a sign, a 53-bit significand held in limbs of *)
(* 15 bits and a binary exponent, with round-to-nearest-even, overflow to  *)
(* infinity and gradual underflow.                                         *)
(***************************************************************************)
EXTENDS Integers, Sequences, FiniteSets, TLC

(***************************************************************************)
(* Natural numbers of up to 75 bits: five limbs, least significant first.  *)
(***************************************************************************)
Base == 2^15

NatZero == <<0, 0, 0, 0, 0>>

NatOfInt(n) == <<n % Base, (n \div Base) % Base, n \div (Base * Base), 0, 0>>

NatIsZero(X) == \A i \in 1..Len(X) : X[i] = 0

NatLess(X, Y) ==
    \E i \in 1..Len(X) : X[i] < Y[i] /\ \A j \in (i+1)..Len(X) : X[j] = Y[j]

RECURSIVE NatAddFrom(_, _, _, _)
NatAddFrom(X, Y, i, c) ==
    IF i > Len(X) THEN <<>>
    ELSE LET t == X[i] + Y[i] + c
         IN  <<t % Base>> \o NatAddFrom(X, Y, i + 1, t \div Base)

NatAdd(X, Y) == NatAddFrom(X, Y, 1, 0)

RECURSIVE NatSubFrom(_, _, _, _)
NatSubFrom(X, Y, i, b) ==
    IF i > Len(X) THEN <<>>
    ELSE LET t == X[i] - Y[i] - b
         IN  IF t < 0 THEN <<t + Base>> \o NatSubFrom(X, Y, i + 1, 1)
                      ELSE <<t>> \o NatSubFrom(X, Y, i + 1, 0)

\* X - Y for X >= Y
NatSub(X, Y) == NatSubFrom(X, Y, 1, 0)

RECURSIVE NatMulFrom(_, _, _, _)
NatMulFrom(X, k, i, c) ==
    IF i > Len(X) THEN <<>>
    ELSE LET t == X[i] * k + c
         IN  <<t % Base>> \o NatMulFrom(X, k, i + 1, t \div Base)

\* X * k for 0 <= k < Base
NatMulSmall(X, k) == NatMulFrom(X, k, 1, 0)

RECURSIVE NatDivFrom(_, _, _, _)
NatDivFrom(X, k, i, r) ==
    IF i = 0 THEN <<>>
    ELSE LET t == r * Base + X[i]
         IN  NatDivFrom(X, k, i - 1, t % k) \o <<t \div k>>

\* X \div k for 0 < k <= Base
NatDivSmall(X, k) == NatDivFrom(X, k, Len(X), 0)

RECURSIVE NatModFrom(_, _, _, _)
NatModFrom(X, k, i, r) ==
    IF i = 0 THEN r ELSE NatModFrom(X, k, i - 1, (r * Base + X[i]) % k)

NatModSmall(X, k) == NatModFrom(X, k, Len(X), 0)

SmallBitLen(v) == IF v = 0 THEN 0 ELSE CHOOSE n \in 1..15 : 2^(n-1) <= v /\ v < 2^n

NatBitLen(X) ==
    IF NatIsZero(X) THEN 0
    ELSE LET t == CHOOSE i \in 1..Len(X) :
                      X[i] # 0 /\ \A j \in (i+1)..Len(X) : X[j] = 0
         IN  15 * (t - 1) + SmallBitLen(X[t])

NatShL(X, n) ==
    LET q == n \div 15
        S == [i \in 1..Len(X) |-> IF i <= q THEN 0 ELSE X[i - q]]
    IN  NatMulSmall(S, 2^(n % 15))

\* X shifted right by n bits, and whether a nonzero bit was shifted out
NatShR(X, n) ==
    LET q == n \div 15
        S == [i \in 1..Len(X) |-> IF i + q <= Len(X) THEN X[i + q] ELSE 0]
        lostLimbs == \E i \in 1..Len(X) : i <= q /\ X[i] # 0
    IN  [x      |-> NatDivSmall(S, 2^(n % 15)),
         sticky |-> lostLimbs \/ NatModSmall(S, 2^(n % 15)) # 0]

(***************************************************************************)
(* binary64.  A finite value is (-1)^s * m * 2^e with m < 2^53; m >= 2^52  *)
(* unless e = EMin (a subnormal) or the value is zero (m = 0, e = 0).      *)
(***************************************************************************)
EMin == 0 - 1074

EMax == 1023 - 52

Zero == [k |-> "fin", s |-> 0, e |-> 0, m |-> NatZero]

Inf(s) == [k |-> "inf", s |-> s, e |-> 0, m |-> NatZero]

NaN == [k |-> "nan", s |-> 0, e |-> 0, m |-> NatZero]

\* what a Python float division by zero raises
ZeroDivisionError == [k |-> "ZeroDivisionError", s |-> 0, e |-> 0, m |-> NatZero]

IsZero(a) == a.k = "fin" /\ NatIsZero(a.m)

IsFinite(a) == a.k = "fin"

Max2(a, b) == IF a >= b THEN a ELSE b

Min2(a, b) == IF a <= b THEN a ELSE b

\* the finite value m * 2^e, or infinity when it is out of range
Finite(s, e, M) ==
    IF e > EMax THEN Inf(s) ELSE [k |-> "fin", s |-> s, e |-> e, m |-> M]

\* a rounded significand M of at most 54 bits
Pack(s, e, M) ==
    IF NatIsZero(M) THEN Zero
    ELSE IF NatBitLen(M) = 54 THEN Finite(s, e + 1, NatDivSmall(M, 2))
    ELSE Finite(s, e, M)

\* R.x holds the significand followed by one guard bit: to nearest, ties to even
RoundHalfEven(s, e, R, sticky) ==
    IF R.x[1] % 2 = 1 /\ (R.sticky \/ sticky \/ (R.x[1] \div 2) % 2 = 1)
    THEN Pack(s, e, NatAdd(NatDivSmall(R.x, 2), NatOfInt(1)))
    ELSE Pack(s, e, NatDivSmall(R.x, 2))

\* sh: how many low bits of X do not fit the significand
RoundAt(s, X, e, sticky, sh) ==
    IF sh <= 0 THEN Finite(s, e + sh, NatShL(X, 0 - sh))
    ELSE RoundHalfEven(s, e + sh, NatShR(X, sh - 1), sticky)

\* (X + f) * 2^e rounded to nearest, ties to even; 0 <= f < 1, f > 0 iff sticky
RoundPack(s, X, e, sticky) ==
    IF NatIsZero(X) THEN Zero
    ELSE RoundAt(s, X, e, sticky, Max2(NatBitLen(X) - 53, EMin - e))

\* float(n) for an int 0 <= n < 2^31
FromInt(n) == RoundPack(0, NatOfInt(n), 0, FALSE)

FNeg(a) == IF a.k = "nan" \/ IsZero(a) THEN a ELSE [a EXCEPT !.s = 1 - a.s]

\* a * k for an int constant 0 < k < 2^15
FMulSmall(a, k) ==
    IF a.k # "fin" THEN a
    ELSE RoundPack(a.s, NatMulSmall(a.m, k), a.e, FALSE)

\* one step of restoring division of st.r by D: the next quotient bit
DivStep(st, D) ==
    IF NatLess(st.r, D)
    THEN [q |-> NatMulSmall(st.q, 2), r |-> NatMulSmall(st.r, 2)]
    ELSE [q |-> NatAdd(NatMulSmall(st.q, 2), NatOfInt(1)),
          r |-> NatMulSmall(NatSub(st.r, D), 2)]

RECURSIVE DivBits(_, _, _)
\* i steps of restoring division: the quotient bits of st.r / D, and the remainder
DivBits(st, D, i) ==
    IF i = 0 THEN st
    ELSE LET nx == DivStep(st, D)
         IN  IF nx.q = nx.q THEN DivBits(nx, D, i - 1) ELSE nx

\* a / b
FDiv(a, b) ==
    IF a.k = "ZeroDivisionError" \/ b.k = "ZeroDivisionError" THEN ZeroDivisionError
    ELSE IF IsZero(b) THEN ZeroDivisionError
    ELSE IF a.k = "nan" \/ b.k = "nan" THEN NaN
    ELSE IF a.k = "inf" THEN (IF b.k = "inf" THEN NaN ELSE Inf((a.s + b.s) % 2))
    ELSE IF b.k = "inf" \/ IsZero(a) THEN Zero
    ELSE
      LET la == 53 - NatBitLen(a.m)
          lb == 53 - NatBitLen(b.m)
          D  == DivBits([q |-> NatZero, r |-> NatShL(a.m, la)],
                        NatShL(b.m, lb), 56)
      IN  RoundPack((a.s + b.s) % 2, D.q, (a.e - la) - (b.e - lb) - 55,
                    ~NatIsZero(D.r))

\* p + q for finite nonzero p, q with p.e >= q.e; Xp, Sq: the significands
\* with three extra low bits, q's aligned to p's exponent
AddAligned(p, q, Xp, Sq) ==
    IF p.s = q.s
    THEN RoundPack(p.s, NatAdd(Xp, Sq.x), p.e - 3, Sq.sticky)
    ELSE IF Xp = Sq.x /\ ~Sq.sticky THEN Zero
    ELSE IF NatLess(Xp, Sq.x)
    THEN RoundPack(q.s, NatSub(Sq.x, Xp), p.e - 3, FALSE)
    ELSE IF Sq.sticky
    THEN RoundPack(p.s, NatSub(NatSub(Xp, Sq.x), NatOfInt(1)), p.e - 3, TRUE)
    ELSE RoundPack(p.s, NatSub(Xp, Sq.x), p.e - 3, FALSE)

AddOrdered(p, q) ==
    AddAligned(p, q, NatShL(p.m, 3),
               IF p.e - q.e > 70 THEN [x |-> NatZero, sticky |-> TRUE]
                                 ELSE NatShR(NatShL(q.m, 3), p.e - q.e))

\* a + b
FAdd(a, b) ==
    IF a.k = "ZeroDivisionError" \/ b.k = "ZeroDivisionError" THEN ZeroDivisionError
    ELSE IF a.k = "nan" \/ b.k = "nan" THEN NaN
    ELSE IF a.k = "inf" THEN (IF b.k = "inf" /\ b.s # a.s THEN NaN ELSE a)
    ELSE IF b.k = "inf" THEN b
    ELSE IF IsZero(a) THEN b
    ELSE IF IsZero(b) THEN a
    ELSE IF a.e >= b.e THEN AddOrdered(a, b)
    ELSE AddOrdered(b, a)

\* a - b
FSub(a, b) == FAdd(a, FNeg(b))

IsPositive(d) == d.k \in {"fin", "inf"} /\ ~IsZero(d) /\ d.s = 0

\* a > b
FGt(a, b) ==
    IF a.k \notin {"fin", "inf"} \/ b.k \notin {"fin", "inf"} THEN FALSE
    ELSE IF a.k = "inf" THEN a.s = 0 /\ ~(b.k = "inf" /\ b.s = 0)
    ELSE IF b.k = "inf" THEN b.s = 1
    ELSE IsPositive(FSub(a, b))

\* a < b
FLt(a, b) == FGt(b, a)

(***************************************************************************)
(* Characters and the pieces of Python's re and str this module needs.     *)
(***************************************************************************)
Digits == {"0", "1", "2", "3", "4", "5", "6", "7", "8", "9"}

DigitValue(c) ==
    CASE c = "0" -> 0 [] c = "1" -> 1 [] c = "2" -> 2 [] c = "3" -> 3
      [] c = "4" -> 4 [] c = "5" -> 5 [] c = "6" -> 6 [] c = "7" -> 7
      [] c = "8" -> 8 [] c = "9" -> 9

\* re's \s, and what str.strip removes
Whitespace == {" ", "\t", "\n", "\r"}

UpperLetters == <<"A","B","C","D","E","F","G","H","I","J","K","L","M","N","O","P","Q","R","S","T","U","V","W","X","Y","Z">>

LowerLetters == <<"a","b","c","d","e","f","g","h","i","j","k","l","m","n","o","p","q","r","s","t","u","v","w","x","y","z">>

LowerTable == [c \in {UpperLetters[i] : i \in 1..26} |->
                  LowerLetters[CHOOSE i \in 1..26 : UpperLetters[i] = c]]

LowerChar(c) == IF c \in DOMAIN LowerTable THEN LowerTable[c] ELSE c

\* str.lower
lower(t) == [i \in 1..Len(t) |-> LowerChar(t[i])]

\* t[a..b], empty when b < a
Slice(t, a, b) == [i \in 1..(b - a + 1) |-> t[a + i - 1]]

\* the literal w (lower case) stands at position i of the lower-cased text tl
MatchWord(tl, i, w) ==
    /\ i >= 1
    /\ i + Len(w) - 1 <= Len(tl)
    /\ \A j \in 1..Len(w) : tl[i + j - 1] = w[j]

\* the first position >= p whose character is not in C (Len(t) + 1 if none):
\* where a greedy run C* that starts at p ends
SkipClass(t, p, C) ==
    CHOOSE j \in p..(Len(t) + 1) :
        /\ j = Len(t) + 1 \/ t[j] \notin C
        /\ \A i \in p..(j - 1) : t[i] \in C

\* the first position >= p that holds character c (Len(t) + 1 if none)
FindChar(t, p, c) ==
    CHOOSE j \in p..(Len(t) + 1) :
        /\ j = Len(t) + 1 \/ t[j] = c
        /\ \A i \in p..(j - 1) : t[i] # c

SetMin(S) == CHOOSE x \in S : \A y \in S : x <= y

SetMax(S) == CHOOSE x \in S : \A y \in S : x >= y

\* w occurs in t[lo..hi] (t lower-cased): Python's "w in s"
Contains(tl, w, lo, hi) == \E i \in lo..(hi - Len(w) + 1) : MatchWord(tl, i, w)

RECURSIVE MatchPhrase(_, _, _)
\* the words of ws, each two joined by \s+, stand at position i: the position
\* after the phrase, or 0.  \s+ is greedy and a word never starts with a space,
\* so the run of spaces is taken whole.
MatchPhrase(tl, i, ws) ==
    IF ~MatchWord(tl, i, Head(ws)) THEN 0
    ELSE LET j == i + Len(Head(ws))
         IN  IF Len(ws) = 1 THEN j
             ELSE LET k == SkipClass(tl, j, Whitespace)
                  IN  IF k = j THEN 0 ELSE MatchPhrase(tl, k, Tail(ws))

(***************************************************************************)
(* float(value_str): the decimal numeral read, then rounded to binary64.   *)
(* Numerals of at most nine significant digits and a power of ten within   *)
(* 10^22 convert as Python does (one correctly rounded operation on exact  *)
(* operands).  Longer numerals keep their first nine significant digits    *)
(* (integers here are 32 bits wide); beyond 10^22 the scaling rounds at    *)
(* every step, and whether the result is zero, finite or infinite is       *)
(* decided on the decimal itself.                                          *)
(***************************************************************************)
\* what float() raises on a malformed numeral
ValueError == [k |-> "ValueError", s |-> 0, e |-> 0, m |-> NatZero]

Pow10(n) == 10^n

DecimalDigits(m) == CHOOSE n \in 1..9 : Pow10(n - 1) <= m /\ m < Pow10(n)

\* float() accepts digits with at most one point and at least one digit
ValidNumeral(s) ==
    /\ \A i \in 1..Len(s) : s[i] \in Digits \cup {"."}
    /\ Cardinality({i \in 1..Len(s) : s[i] = "."}) <= 1
    /\ \E i \in 1..Len(s) : s[i] \in Digits

RECURSIVE DigitsValue(_, _, _)
\* the integer written by the digits of s[a..b] (a point in between is skipped)
DigitsValue(s, a, b) ==
    IF b < a THEN 0
    ELSE IF s[b] = "." THEN DigitsValue(s, a, b - 1)
    ELSE DigitsValue(s, a, b - 1) * 10 + DigitValue(s[b])

\* the numeral s as m * 10^e, from its first nine significant digits
Decimal(s) ==
    LET dot == FindChar(s, 1, ".")
        first == SkipClass(s, 1, {"0", "."})
        place(i) == IF i < dot THEN dot - 1 - i ELSE dot - i
        \* the last position that keeps at most nine digits from first on
        cut == LET c == first + 8
               IN  IF first < dot /\ dot <= c THEN c + 1 ELSE c
        last0 == IF cut > Len(s) THEN Len(s) ELSE cut
        last == IF s[last0] = "." THEN last0 - 1 ELSE last0
    IN  IF first > Len(s) THEN [m |-> 0, e |-> 0]
        ELSE [m |-> DigitsValue(s, first, last), e |-> place(last)]

RECURSIVE NatTimesPow10(_, _)
NatTimesPow10(X, n) ==
    IF n = 0 \/ X[1] # X[1] THEN X ELSE NatTimesPow10(NatMulSmall(X, 10), n - 1)

RECURSIVE FTimesPow10(_, _)
FTimesPow10(a, n) ==
    IF n = 0 \/ a.k # a.k THEN a
    ELSE IF n >= 4 THEN FTimesPow10(FMulSmall(a, 10000), n - 4)
    ELSE FTimesPow10(FMulSmall(a, 10), n - 1)

RECURSIVE FOverPow10(_, _)
FOverPow10(a, n) ==
    IF n = 0 \/ a.k # a.k THEN a
    ELSE IF n >= 4 THEN FOverPow10(FDiv(a, FromInt(10000)), n - 4)
    ELSE FOverPow10(FDiv(a, FromInt(10)), n - 1)

\* m * 10^e rounded to binary64, 0 <= m < 10^9
DecimalToFloat(m, e) ==
    IF m = 0 THEN Zero
    ELSE
      LET nd  == DecimalDigits(m)
          mag == nd + e
          m9  == m * Pow10(9 - nd)
      IN  \* 2^1024 - 2^970 = 1.797693134862315807...e308 rounds to infinity
          IF mag > 309 \/ (mag = 309 /\ m9 > 179769313) THEN Inf(0)
          \* 2^-1075 = 2.470328229206232720...e-324 rounds to zero
          ELSE IF mag < 0 - 323 \/ (mag = 0 - 323 /\ m9 <= 247032822) THEN Zero
          ELSE IF e >= 0 /\ mag <= 22
               THEN RoundPack(0, NatTimesPow10(NatOfInt(m), e), 0, FALSE)
          ELSE IF e >= 0
               THEN FTimesPow10(RoundPack(0, NatTimesPow10(NatOfInt(m), 22 - nd),
                                          0, FALSE), e - (22 - nd))
          ELSE IF 0 - e <= 22
               THEN FDiv(FromInt(m),
                         RoundPack(0, NatTimesPow10(NatOfInt(1), 0 - e), 0, FALSE))
          ELSE FOverPow10(FDiv(FromInt(m),
                               RoundPack(0, NatTimesPow10(NatOfInt(1), 22), 0, FALSE)),
                          0 - e - 22)

\* float(s)
float(s) ==
    IF ~ValidNumeral(s) THEN ValueError
    ELSE LET d == Decimal(s) IN DecimalToFloat(d.m, d.e)

(***************************************************************************)
(* FinancialMetricExtractor                                                *)
(***************************************************************************)
\* The pattern table.  Every pattern reads
\*     LABEL .*? [\$\s]+ ([\d,\.]+)   and, when scale, then   \s*(?:million|billion)?
\* with re.IGNORECASE.  label lists the alternatives of LABEL in the order
\* the regular expression tries them; each is a phrase whose words are joined
\* by \s+ (an optional group of the source is spelt out as alternatives).
_load_patterns ==
    [
      revenue |->
        [label |-> << <<<<"r","e","v","e","n","u","e">>>>,
                     <<<<"s","a","l","e","s">>>>,
                     <<<<"n","e","t">>, <<"s","a","l","e","s">>>> >>,
         scale |-> TRUE],
      net_income |->
        [label |-> << <<<<"n","e","t">>, <<"i","n","c","o","m","e">>>> >>,
         scale |-> TRUE],
      earnings_per_share |->
        [label |-> << <<<<"e","a","r","n","i","n","g","s">>, <<"p","e","r">>, <<"s","h","a","r","e">>>> >>,
         scale |-> FALSE],
      gross_profit |->
        [label |-> << <<<<"g","r","o","s","s">>, <<"p","r","o","f","i","t">>>> >>,
         scale |-> TRUE],
      operating_income |->
        [label |-> << <<<<"o","p","e","r","a","t","i","n","g">>, <<"i","n","c","o","m","e">>>> >>,
         scale |-> TRUE],
      total_assets |->
        [label |-> << <<<<"t","o","t","a","l">>, <<"a","s","s","e","t","s">>>> >>,
         scale |-> TRUE],
      total_liabilities |->
        [label |-> << <<<<"t","o","t","a","l">>, <<"l","i","a","b","i","l","i","t","i","e","s">>>> >>,
         scale |-> TRUE],
      cash_and_equivalents |->
        [label |-> << <<<<"c","a","s","h">>, <<"a","n","d">>, <<"c","a","s","h">>, <<"e","q","u","i","v","a","l","e","n","t","s">>>>,
                     <<<<"c","a","s","h">>, <<"a","n","d">>, <<"e","q","u","i","v","a","l","e","n","t","s">>>>,
                     <<<<"c","a","s","h">>, <<"c","a","s","h">>, <<"e","q","u","i","v","a","l","e","n","t","s">>>>,
                     <<<<"c","a","s","h">>, <<"e","q","u","i","v","a","l","e","n","t","s">>>> >>,
         scale |-> TRUE],
      stockholders_equity |->
        [label |-> << <<<<"s","t","o","c","k","h","o","l","d","e","r","s">>, <<"e","q","u","i","t","y">>>>,
                     <<<<"s","h","a","r","e","h","o","l","d","e","r","s">>, <<"e","q","u","i","t","y">>>> >>,
         scale |-> TRUE]
    ]

MetricNames == {"revenue", "net_income", "earnings_per_share", "gross_profit",
                "operating_income", "total_assets", "total_liabilities",
                "cash_and_equivalents", "stockholders_equity"}

W_million == <<"m","i","l","l","i","o","n">>

W_billion == <<"b","i","l","l","i","o","n">>

DollarSpace == Whitespace \cup {"$"}

NumChars == Digits \cup {",", "."}

NoMatch == [start |-> 0, gs |-> 0, ge |-> 0, end |-> 0]

\* where \s*(?:million|billion)? ends when it starts at position ge
ScaleEnd(tl, ge, ws) ==
    IF MatchWord(tl, ws, W_million) THEN ws + Len(W_million)
    ELSE IF MatchWord(tl, ws, W_billion) THEN ws + Len(W_billion)
    ELSE ws

\* group 1 is t[gs..ge-1]; the match began at position i
AmountFrom(t, tl, i, gs, ge, scale) ==
    [start |-> i, gs |-> gs, ge |-> ge,
     end |-> IF scale THEN ScaleEnd(tl, ge, SkipClass(t, ge, Whitespace)) ELSE ge]

\* a run of [\$\s] begins at p and a [\d,\.] follows it
AmountAt(t, p) ==
    /\ t[p] \in DollarSpace
    /\ SkipClass(t, p, DollarSpace) <= Len(t)
    /\ t[SkipClass(t, p, DollarSpace)] \in NumChars

FirstAmount(t, tl, i, P, scale) ==
    IF P = {} THEN NoMatch
    ELSE AmountFrom(t, tl, i, SkipClass(t, SetMin(P), DollarSpace),
                    SkipClass(t, SkipClass(t, SetMin(P), DollarSpace), NumChars),
                    scale)

\* .*?[\$\s]+([\d,\.]+) and the optional scale word, from position q on, of
\* a match that began at position i.  The lazy .*? stops at the first
\* position p, reached without crossing a line break, where a run of [\$\s]
\* begins that a [\d,\.] follows; both runs are greedy and nothing after
\* them can fail.
MatchAmount(t, tl, i, q, scale) ==
    FirstAmount(t, tl, i,
                {p \in q..Min2(FindChar(t, q, "\n"), Len(t)) : AmountAt(t, p)},
                scale)

\* alternative a of the label at position i, then the amount
MatchAlternative(pattern, t, tl, i, a) ==
    IF MatchPhrase(tl, i, pattern.label[a]) = 0 THEN NoMatch
    ELSE MatchAmount(t, tl, i, MatchPhrase(tl, i, pattern.label[a]), pattern.scale)

FirstAlternative(pattern, t, tl, i, A) ==
    IF A = {} THEN NoMatch ELSE MatchAlternative(pattern, t, tl, i, SetMin(A))

\* the pattern matched with its first character at position i
MatchAt(pattern, t, tl, i) ==
    FirstAlternative(pattern, t, tl, i,
                     {a \in 1..Len(pattern.label) :
                         MatchAlternative(pattern, t, tl, i, a) # NoMatch})

Leftmost(pattern, t, tl, S) ==
    IF S = {} THEN NoMatch ELSE MatchAt(pattern, t, tl, SetMin(S))

SearchLower(pattern, t, tl) ==
    Leftmost(pattern, t, tl, {i \in 1..Len(t) : MatchAt(pattern, t, tl, i) # NoMatch})

\* pattern.search(text): the match at the leftmost position that has one.
\* start is the first matched position, gs..ge-1 is group 1, end - 1 the last.
search(pattern, t) == SearchLower(pattern, t, lower(t))

\* str.replace(c, '')
RemoveChar(s, c) == SelectSeq(s, LAMBDA x : x # c)

\* value, times 1000 when "billion" stands in the context window
Scaled(value, billion) ==
    IF value = ValueError THEN ValueError
    ELSE IF billion THEN FMulSmall(value, 1000)
    ELSE value

\* a faulty window: the match alone, without the 50 characters before it
\* and the 20 after it
MetricValue_match_only(t, mt) ==
    Scaled(float(RemoveChar(Slice(t, mt.gs, mt.ge - 1), ",")),
           Contains(lower(t), W_billion, mt.start, mt.end - 1))

\* the value extract_metrics stores for a match, or ValueError
MetricValue(t, mt) ==
    Scaled(float(RemoveChar(Slice(t, mt.gs, mt.ge - 1), ",")),
           Contains(lower(t), W_billion,
                    Max2(1, mt.start - 50), Min2(Len(t), mt.end + 19)))

\* what one pattern yields: a value, or ValueError when nothing is stored
Found(mt, text) == IF mt = NoMatch THEN ValueError ELSE MetricValue(text, mt)

\* a faulty store: a metric without a value is kept as 0.0
Stored_zero_filled(found) ==
    [n \in DOMAIN found |-> IF found[n] = ValueError THEN Zero ELSE found[n]]

Stored(found) == [n \in {x \in DOMAIN found : found[x] # ValueError} |-> found[n]]

extract_metrics(patterns, text) ==
    Stored([n \in DOMAIN patterns |-> Found(search(patterns[n], text), text)])

Has(metrics, name) == name \in DOMAIN metrics

EmptyMap == [x \in {} |-> Zero]

\* a faulty guard: metrics[divisor] >= 0
DivisorNotNegative(v) == FGt(v, Zero) \/ IsZero(v)

\* the guard of every ratio: metrics[divisor] > 0
DivisorOk(v) == FGt(v, Zero)

\* a faulty percentage: the factor 100 left out
Unscaled(x) == x

\* ... * 100
Percent(x) == FMulSmall(x, 100)

\* metrics[num] / metrics[den]
Quotient(metrics, num, den) == FDiv(metrics[num], metrics[den])

\* one "if ... in metrics and ... in metrics and metrics[den] > 0" statement
Entry(metrics, name, num, den, percent) ==
    IF Has(metrics, num) /\ Has(metrics, den) /\ DivisorOk(metrics[den])
    THEN name :> (IF percent THEN Percent(Quotient(metrics, num, den))
                             ELSE Quotient(metrics, num, den))
    ELSE EmptyMap

\* a division by zero leaves the function with ZeroDivisionError: no mapping
Raises(m) == \E n \in DOMAIN m : m[n] = ZeroDivisionError

Returned(m) == IF Raises(m) THEN ZeroDivisionError ELSE m

calculate_ratios(metrics) ==
    Returned(Entry(metrics, "profit_margin", "net_income", "revenue", TRUE)
             @@ Entry(metrics, "return_on_assets", "net_income", "total_assets", TRUE)
             @@ Entry(metrics, "debt_to_equity", "total_liabilities",
                      "stockholders_equity", FALSE)
             @@ Entry(metrics, "cash_ratio", "cash_and_equivalents",
                      "total_liabilities", FALSE))

(***************************************************************************)
(* SentimentAnalyzer                                                       *)
(***************************************************************************)
_load_lexicons ==
    [
      positive |-> <<
        <<"g","r","o","w","t","h">>,
        <<"i","n","c","r","e","a","s","e">>,
        <<"i","m","p","r","o","v","e","d">>,
        <<"s","t","r","o","n","g">>,
        <<"p","o","s","i","t","i","v","e">>,
        <<"g","a","i","n">>,
        <<"p","r","o","f","i","t">>,
        <<"s","u","c","c","e","s","s">>,
        <<"o","p","p","o","r","t","u","n","i","t","y">>,
        <<"f","a","v","o","r","a","b","l","e">>,
        <<"e","x","p","a","n","d">>,
        <<"e","f","f","i","c","i","e","n","t">>,
        <<"e","x","c","e","l","l","e","n","t">>,
        <<"r","o","b","u","s","t">>,
        <<"m","o","m","e","n","t","u","m">>,
        <<"o","u","t","p","e","r","f","o","r","m">>,
        <<"e","x","c","e","e","d","e","d">>,
        <<"i","n","n","o","v","a","t","i","v","e">>,
        <<"c","o","m","p","e","t","i","t","i","v","e">> >>,
      negative |-> <<
        <<"d","e","c","l","i","n","e">>,
        <<"d","e","c","r","e","a","s","e">>,
        <<"l","o","s","s">>,
        <<"w","e","a","k">>,
        <<"n","e","g","a","t","i","v","e">>,
        <<"r","i","s","k">>,
        <<"c","h","a","l","l","e","n","g","e">>,
        <<"c","o","n","c","e","r","n">>,
        <<"a","d","v","e","r","s","e">>,
        <<"d","i","f","f","i","c","u","l","t">>,
        <<"u","n","c","e","r","t","a","i","n","t","y">>,
        <<"v","o","l","a","t","i","l","e">>,
        <<"i","m","p","a","i","r","m","e","n","t">>,
        <<"l","i","t","i","g","a","t","i","o","n">>,
        <<"d","e","f","a","u","l","t">>,
        <<"b","r","e","a","c","h">>,
        <<"d","e","t","e","r","i","o","r","a","t","e">>,
        <<"u","n","s","u","c","c","e","s","s","f","u","l">> >>,
      uncertainty |-> <<
        <<"m","a","y">>,
        <<"c","o","u","l","d">>,
        <<"m","i","g","h","t">>,
        <<"u","n","c","e","r","t","a","i","n">>,
        <<"e","s","t","i","m","a","t","e">>,
        <<"b","e","l","i","e","v","e">>,
        <<"e","x","p","e","c","t">>,
        <<"a","n","t","i","c","i","p","a","t","e">>,
        <<"s","u","b","j","e","c","t"," ","t","o">>,
        <<"d","e","p","e","n","d","s">>,
        <<"v","a","r","i","e","s">>,
        <<"f","l","u","c","t","u","a","t","e">> >>
    ]

RECURSIVE CountFrom(_, _, _)
\* the occurrences of word a scan from position p on counts: the scan
\* resumes after the end of the occurrence it counted
CountFrom(tl, word, p) ==
    IF \A i \in p..(Len(tl) - Len(word) + 1) : ~MatchWord(tl, i, word) THEN 0
    ELSE 1 + CountFrom(tl, word,
                       SetMin({i \in p..(Len(tl) - Len(word) + 1) :
                                  MatchWord(tl, i, word)}) + Len(word))

\* text_lower.count(word): the non-overlapping occurrences
count(tl, word) == CountFrom(tl, word, 1)

RECURSIVE CategoryCount(_, _)
\* counts[category] after the loop over one lexicon
CategoryCount(tl, lexicon) ==
    IF lexicon = <<>> THEN 0
    ELSE count(tl, Head(lexicon)) + CategoryCount(tl, Tail(lexicon))

Counts(lexicons, tl) == [c \in DOMAIN lexicons |-> CategoryCount(tl, lexicons[c])]

\* sum(counts.values())
Total(counts) == counts.positive + counts.negative + counts.uncertainty

One == FromInt(1)

Two == FromInt(2)

\* the float literals 0.5, 0.6 and 0.4
Half == float(<<"0", ".", "5">>)

SixTenths == float(<<"0", ".", "6">>)

FourTenths == float(<<"0", ".", "4">>)

\* a faulty score: count // total
FloorScore(n, total) == FromInt(n \div total)

\* count / total, an int by an int
Score(n, total) == FDiv(FromInt(n), FromInt(total))

\* faulty scores: the total == 0 branch left out
Scores_unguarded(counts, total) ==
    [c \in DOMAIN counts |-> FDiv(FromInt(counts[c]), FromInt(total))]

Scores(counts, total) ==
    IF total = 0 THEN [c \in DOMAIN counts |-> Zero]
    ELSE [c \in DOMAIN counts |-> Score(counts[c], total)]

\* a faulty default: 0.0 for a text without lexicon words
Overall_zero(scores, total) ==
    IF total = 0 THEN Zero
    ELSE FDiv(FAdd(FSub(scores.positive, scores.negative), One), Two)

Overall(scores, total) ==
    IF total = 0 THEN Half
    ELSE FDiv(FAdd(FSub(scores.positive, scores.negative), One), Two)

\* faulty thresholds: >= 0.6 and <= 0.4
_label_sentiment_inclusive(score) ==
    IF ~FLt(score, SixTenths) THEN "Positive"
    ELSE IF ~FGt(score, FourTenths) THEN "Negative"
    ELSE "Neutral"

_label_sentiment(score) ==
    IF FGt(score, SixTenths) THEN "Positive"
    ELSE IF FLt(score, FourTenths) THEN "Negative"
    ELSE "Neutral"

analyze_text(lexicons, text) ==
    LET counts  == Counts(lexicons, lower(text))
        total   == Total(counts)
        scores  == Scores(counts, total)
        overall == Overall(scores, total)
    IN  [counts |-> counts, scores |-> scores, overall_sentiment |-> overall,
         sentiment_label |-> _label_sentiment(overall)]

(***************************************************************************)
(* EntityExtractor                                                         *)
(***************************************************************************)
\* EntityExtractor._load_patterns.  Each pattern has one of four shapes; words
\* lists the literals of its alternation, lower-cased where the pattern is
\* compiled with re.IGNORECASE.
\*   company     \b(?:[A-Z][a-z]+(?:\s+[A-Z][a-z]+)*)\s+(?:Inc\.|Corp\.|LLC|Ltd\.)
\*   date        (?:January|...|December)\s+\d{1,2},?\s+\d{4}
\*   money       \$[\d,]+(?:\.\d{2})?
\*   percentage  \d+(?:\.\d+)?%
EntityExtractor_load_patterns ==
    [
      company |-> [shape |-> "company",
                   words |-> <<
                     <<"i","n","c",".">>,
                     <<"c","o","r","p",".">>,
                     <<"l","l","c">>,
                     <<"l","t","d",".">> >>],
      date |-> [shape |-> "date",
                words |-> <<
                  <<"j","a","n","u","a","r","y">>,
                  <<"f","e","b","r","u","a","r","y">>,
                  <<"m","a","r","c","h">>,
                  <<"a","p","r","i","l">>,
                  <<"m","a","y">>,
                  <<"j","u","n","e">>,
                  <<"j","u","l","y">>,
                  <<"a","u","g","u","s","t">>,
                  <<"s","e","p","t","e","m","b","e","r">>,
                  <<"o","c","t","o","b","e","r">>,
                  <<"n","o","v","e","m","b","e","r">>,
                  <<"d","e","c","e","m","b","e","r">> >>],
      money |-> [shape |-> "money", words |-> << <<"$">> >>],
      percentage |-> [shape |-> "percentage", words |-> << <<"%">> >>]
    ]

Letters == {UpperLetters[i] : i \in 1..26} \cup {LowerLetters[i] : i \in 1..26}

WordChars == Letters \cup Digits \cup {"_"}

RECURSIVE LiteralEnd(_, _, _)
\* the end of the first of the literals ws that stands at position i, or 0
LiteralEnd(tl, i, ws) ==
    IF ws = <<>> THEN 0
    ELSE IF MatchWord(tl, i, Head(ws)) THEN i + Len(Head(ws))
    ELSE LiteralEnd(tl, i, Tail(ws))

RECURSIVE NameEnds(_, _)
\* where [A-Z][a-z]+(?:\s+[A-Z][a-z]+)* can end when it starts at position i:
\* after each word of a chain of words of two letters or more.  A word is
\* followed by \s, so it is a whole run of letters.
NameEnds(t, i) ==
    IF SkipClass(t, i, Letters) < i + 2 THEN {}
    ELSE {SkipClass(t, i, Letters)}
         \cup (IF SkipClass(t, SkipClass(t, i, Letters), Whitespace)
                     > SkipClass(t, i, Letters)
               THEN NameEnds(t, SkipClass(t, SkipClass(t, i, Letters), Whitespace))
               ELSE {})

\* the name ends before position e: \s+ and one of the suffixes follow
SuffixEnd(t, tl, e, suffixes) ==
    IF SkipClass(t, e, Whitespace) = e THEN 0
    ELSE LiteralEnd(tl, SkipClass(t, e, Whitespace), suffixes)

\* the greedy chain gives words back until a suffix follows
LongestName(t, tl, E, suffixes) ==
    IF E = {} THEN 0 ELSE SuffixEnd(t, tl, SetMax(E), suffixes)

CompanyEnd(t, tl, i, suffixes) ==
    IF i > 1 /\ t[i - 1] \in WordChars THEN 0
    ELSE LongestName(t, tl, {e \in NameEnds(t, i) : SuffixEnd(t, tl, e, suffixes) # 0},
                     suffixes)

AllDigits(t, a, b) == b <= Len(t) /\ \A j \in a..b : t[j] \in Digits

\* \s+\d{4} from position p on
YearEnd(t, p) ==
    IF SkipClass(t, p, Whitespace) > p
       /\ AllDigits(t, SkipClass(t, p, Whitespace), SkipClass(t, p, Whitespace) + 3)
    THEN SkipClass(t, p, Whitespace) + 4
    ELSE 0

\* \d{1,2},?\s+\d{4} with the day at position d: a day of one or two digits
\* that no digit follows, then the comma if there is one
DayEnd(t, d) ==
    IF d > Len(t) \/ SkipClass(t, d, Digits) = d \/ SkipClass(t, d, Digits) > d + 2
    THEN 0
    ELSE IF SkipClass(t, d, Digits) <= Len(t) /\ t[SkipClass(t, d, Digits)] = ","
    THEN YearEnd(t, SkipClass(t, d, Digits) + 1)
    ELSE YearEnd(t, SkipClass(t, d, Digits))

\* the month ended before position m
AfterMonth(t, m) ==
    IF m = 0 \/ SkipClass(t, m, Whitespace) = m THEN 0
    ELSE DayEnd(t, SkipClass(t, m, Whitespace))

DateEnd(t, tl, i, months) == AfterMonth(t, LiteralEnd(tl, i, months))

\* (?:\.\d{2})? at position e
CentsEnd(t, e) ==
    IF e <= Len(t) /\ t[e] = "." /\ AllDigits(t, e + 1, e + 2) THEN e + 3 ELSE e

MoneyEnd(t, i) ==
    IF t[i] # "$" \/ SkipClass(t, i + 1, Digits \cup {","}) = i + 1 THEN 0
    ELSE CentsEnd(t, SkipClass(t, i + 1, Digits \cup {","}))

\* (?:\.\d+)?% after the digits that end before position e
PercentEnd(t, e) ==
    IF e > Len(t) THEN 0
    ELSE IF t[e] = "%" THEN e + 1
    ELSE IF t[e] = "." /\ SkipClass(t, e + 1, Digits) > e + 1
            /\ SkipClass(t, e + 1, Digits) <= Len(t)
            /\ t[SkipClass(t, e + 1, Digits)] = "%"
    THEN SkipClass(t, e + 1, Digits) + 1
    ELSE 0

PercentageEnd(t, i) ==
    IF t[i] \notin Digits THEN 0 ELSE PercentEnd(t, SkipClass(t, i, Digits))

\* the position after the match of pattern that starts at position i, or 0
MatchEnd(pattern, t, tl, i) ==
    CASE pattern.shape = "company" -> CompanyEnd(t, tl, i, pattern.words)
      [] pattern.shape = "date" -> DateEnd(t, tl, i, pattern.words)
      [] pattern.shape = "money" -> MoneyEnd(t, i)
      [] pattern.shape = "percentage" -> PercentageEnd(t, i)

RECURSIVE MatchesFrom(_, _, _)
\* the matches a scan from position p on returns: E[i] is the end of the
\* match that starts at position i, and the scan resumes at the end of the
\* match it took
MatchesFrom(t, E, p) ==
    IF {i \in p..Len(t) : E[i] # 0} = {} THEN {}
    ELSE {Slice(t, SetMin({i \in p..Len(t) : E[i] # 0}),
                E[SetMin({i \in p..Len(t) : E[i] # 0})] - 1)}
         \cup MatchesFrom(t, E, E[SetMin({i \in p..Len(t) : E[i] # 0})])

MatchEnds(pattern, t, tl) == [i \in 1..Len(t) |-> MatchEnd(pattern, t, tl, i)]

\* set(pattern.findall(text))
findall(pattern, t) == MatchesFrom(t, MatchEnds(pattern, t, lower(t)), 1)

\* list(set(matches)) lists each match once, in no order: a set
extract_entities(entity_patterns, text) ==
    [entity_type \in DOMAIN entity_patterns |->
        findall(entity_patterns[entity_type], text)]

(***************************************************************************)
(* SECFilingParser._extract_sections and _extract_risk_factors             *)
(***************************************************************************)
\* .{0,100}? between the heading and the group
SkipMax == 100

\* (.{1,10000}?), the group
GroupMax == 10000

\* .{0,50} between Management and Discussion
GapMax == 50

\* The two searches, both IGNORECASE | DOTALL:
\*     HEAD .{0,100}? (.{1,10000}?) END
\* heads and ends list the alternatives in the order tried.  An alternative
\* is two literals joined by \s+ (gap = -1) or by .{0,gap}.
SectionPatterns ==
    [
      mda |->
        [heads |-> << [first |-> <<"i","t","e","m">>, second |-> <<"7">>, gap |-> 0 - 1],
                      [first |-> <<"m","a","n","a","g","e","m","e","n","t">>, second |-> <<"d","i","s","c","u","s","s","i","o","n">>,
                       gap |-> GapMax] >>,
         ends |-> << [first |-> <<"i","t","e","m">>, second |-> <<"8">>, gap |-> 0 - 1],
                     [first |-> <<"f","i","n","a","n","c","i","a","l">>, second |-> <<"s","t","a","t","e","m","e","n","t","s">>,
                      gap |-> 0 - 1] >>],
      risk_factors |->
        [heads |-> << [first |-> <<"i","t","e","m">>, second |-> <<"1","a">>, gap |-> 0 - 1],
                      [first |-> <<"r","i","s","k">>, second |-> <<"f","a","c","t","o","r","s">>, gap |-> 0 - 1] >>,
         ends |-> << [first |-> <<"i","t","e","m">>, second |-> <<"1","b">>, gap |-> 0 - 1],
                     [first |-> <<"i","t","e","m">>, second |-> <<"2">>, gap |-> 0 - 1] >>]
    ]

\* the positions after the alternative alt when it starts at position i
AltEnds(tl, i, alt) ==
    IF ~MatchWord(tl, i, alt.first) THEN {}
    ELSE IF alt.gap < 0
    THEN {e \in {MatchPhrase(tl, i, <<alt.first, alt.second>>)} : e # 0}
    ELSE {i + Len(alt.first) + d + Len(alt.second) : d \in
             {d \in 0..alt.gap : MatchWord(tl, i + Len(alt.first) + d, alt.second)}}

\* one of the alternatives alts starts at position p
AnyAt(tl, p, alts) == \E a \in 1..Len(alts) : AltEnds(tl, p, alts[a]) # {}

\* where END can start after a heading that ends before position h: the lazy
\* .{0,100}? and the lazy group reach SkipMax + GroupMax characters at most
EndStarts(tl, h, ends) ==
    {p \in (h + 1)..Min2(Len(tl), h + SkipMax + GroupMax) : AnyAt(tl, p, ends)}

\* the heading's end for alternative alt at position i: a greedy gap takes
\* the last second literal after which the search still succeeds
HeadEnd(tl, i, alt, ends) ==
    IF {h \in AltEnds(tl, i, alt) : EndStarts(tl, h, ends) # {}} = {} THEN 0
    ELSE SetMax({h \in AltEnds(tl, i, alt) : EndStarts(tl, h, ends) # {}})

RECURSIVE FirstHeadEnd(_, _, _, _)
\* the heading's end for a match that starts at position i, or 0
FirstHeadEnd(tl, i, heads, ends) ==
    IF heads = <<>> THEN 0
    ELSE IF HeadEnd(tl, i, Head(heads), ends) # 0
    THEN HeadEnd(tl, i, Head(heads), ends)
    ELSE FirstHeadEnd(tl, i, Tail(heads), ends)

\* group 1: the lazy .{0,100}? takes nothing unless the group, at its
\* longest, cannot reach the first END
GroupBefore(t, h, p) == Slice(t, Max2(h, p - GroupMax), p - 1)

GroupAfter(t, tl, h, ends) == GroupBefore(t, h, SetMin(EndStarts(tl, h, ends)))

\* the leftmost match of the starts S
GroupAt(t, tl, pattern, S) ==
    GroupAfter(t, tl, FirstHeadEnd(tl, SetMin(S), pattern.heads, pattern.ends),
               pattern.ends)

SectionStarts(tl, pattern) ==
    {i \in 1..Len(tl) : FirstHeadEnd(tl, i, pattern.heads, pattern.ends) # 0}

Section(t, tl, name, S) ==
    IF S = {} THEN EmptyMap ELSE name :> GroupAt(t, tl, SectionPatterns[name], S)

SectionsOf(t, tl) ==
    Section(t, tl, "mda", SectionStarts(tl, SectionPatterns.mda))
    @@ Section(t, tl, "risk_factors", SectionStarts(tl, SectionPatterns.risk_factors))

_extract_sections(text) == SectionsOf(text, lower(text))

risk_keywords == << <<"r","i","s","k">>, <<"u","n","c","e","r","t","a","i","n","t","y">>, <<"a","d","v","e","r","s","e">>, <<"c","h","a","l","l","e","n","g","e">>, <<"c","o","n","c","e","r","n">> >>

\* len(sentence.strip()) > MinLength
MinLength == 50

\* risks[:MaxRisks]
MaxRisks == 10

\* [.!?]
SentenceEnd == {".", "!", "?"}

\* where the pieces of re.split(r'[.!?]+', text) start: at the start of the
\* text and after every run of [.!?]
PieceStarts(t) ==
    {1} \cup {i + 1 : i \in {j \in 1..Len(t) :
                                /\ t[j] \in SentenceEnd
                                /\ (j = Len(t) \/ t[j + 1] \notin SentenceEnd)}}

\* the positions S in ascending order
Ascending(S) ==
    [k \in 1..Cardinality(S) |->
        CHOOSE x \in S : Cardinality({y \in S : y < x}) = k - 1]

\* the first position >= p whose character is in C (Len(t) + 1 if none)
FindClass(t, p, C) ==
    CHOOSE j \in p..(Len(t) + 1) :
        /\ j = Len(t) + 1 \/ t[j] \in C
        /\ \A i \in p..(j - 1) : t[i] \notin C

Piece(t, s) == Slice(t, s, FindClass(t, s, SentenceEnd) - 1)

Pieces(t, starts) == [k \in 1..Len(starts) |-> Piece(t, starts[k])]

\* re.split(r'[.!?]+', text)
split(t) == Pieces(t, Ascending(PieceStarts(t)))

\* str.strip
strip(s) ==
    IF \A i \in 1..Len(s) : s[i] \in Whitespace THEN <<>>
    ELSE Slice(s, SetMin({i \in 1..Len(s) : s[i] \notin Whitespace}),
               SetMax({i \in 1..Len(s) : s[i] \notin Whitespace}))

\* any(keyword in sentence_lower for keyword in risk_keywords)
AnyKeyword(sl) ==
    \E k \in 1..Len(risk_keywords) : Contains(sl, risk_keywords[k], 1, Len(sl))

\* a faulty loop body: the length of the sentence as split, not stripped
Appended_unstripped(sentence) ==
    AnyKeyword(lower(sentence)) /\ Len(sentence) > MinLength

\* the two conditions of the loop body
Appended(sentence) ==
    AnyKeyword(lower(sentence)) /\ Len(strip(sentence)) > MinLength

Stripped(sentences) == [k \in 1..Len(sentences) |-> strip(sentences[k])]

Top(risks) == SubSeq(risks, 1, Min2(MaxRisks, Len(risks)))

_extract_risk_factors(text) ==
    Top(Stripped(SelectSeq(split(text), Appended)))

(***************************************************************************)
(* SECFilingParser.parse_filing                                            *)
(***************************************************************************)
\* text[:FirstChars]
FirstChars == 5000

\* a faulty excerpt: the whole text when there is no MD&A section
mda_text_whole(sections, text) ==
    IF Has(sections, "mda") THEN sections["mda"] ELSE text

\* sections.get('mda', text[:5000])
mda_text(sections, text) ==
    IF Has(sections, "mda") THEN sections["mda"]
    ELSE Slice(text, 1, Min2(FirstChars, Len(text)))

\* {k: len(v) for k, v in sections.items()}
Lengths(sections) == [k \in DOMAIN sections |-> Len(sections[k])]

\* the words of lexicon that do not occur in tl
Unseen(lexicon, tl) == SelectSeq(lexicon, LAMBDA w : count(tl, w) = 0)

\* a faulty call: it takes each word it counted out of the parser's lexicon
parse_filing_consuming(self, text, ticker, filing_type, now) ==
    LET sections == _extract_sections(text)
        metrics  == extract_metrics(self.patterns, text)
        ratios   == calculate_ratios(metrics)
        mda      == mda_text(sections, text)
    IN  [self |-> [self EXCEPT !.lexicons =
                      [c \in DOMAIN self.lexicons |->
                          Unseen(self.lexicons[c], lower(mda))]],
         result |->
            IF ratios = ZeroDivisionError THEN ZeroDivisionError
            ELSE [ticker |-> ticker,
                  filing_type |-> filing_type,
                  parsed_date |-> now,
                  metrics |-> metrics,
                  ratios |-> ratios,
                  sentiment |-> analyze_text(self.lexicons, mda),
                  entities |-> extract_entities(self.entity_patterns, text),
                  risks |-> _extract_risk_factors(text),
                  sections |-> Lengths(sections)]]

\* One call on the parser self = [patterns, lexicons, entity_patterns], at
\* clock reading now: the parser the call leaves behind, and what the call
\* returns, or the exception that leaves it.
parse_filing(self, text, ticker, filing_type, now) ==
    LET sections == _extract_sections(text)
        metrics  == extract_metrics(self.patterns, text)
        ratios   == calculate_ratios(metrics)
    IN  [self |-> self,
         result |->
            IF ratios = ZeroDivisionError THEN ZeroDivisionError
            ELSE [ticker |-> ticker,
                  filing_type |-> filing_type,
                  parsed_date |-> now,
                  metrics |-> metrics,
                  ratios |-> ratios,
                  sentiment |-> analyze_text(self.lexicons, mda_text(sections, text)),
                  entities |-> extract_entities(self.entity_patterns, text),
                  risks |-> _extract_risk_factors(text),
                  sections |-> Lengths(sections)]]

(***************************************************************************)
(* SECFilingParser.generate_report                                         *)
(***************************************************************************)
DigitChar(d) == CHOOSE c \in Digits : DigitValue(c) = d

RECURSIVE str(_)
\* str(n) for an int n >= 0
str(n) == IF n < 10 THEN <<DigitChar(n)>> ELSE str(n \div 10) \o <<DigitChar(n % 10)>>

UpperChar(c) ==
    IF \E i \in 1..26 : LowerLetters[i] = c
    THEN UpperLetters[CHOOSE i \in 1..26 : LowerLetters[i] = c]
    ELSE c

\* str.replace(a, b) for single characters
replace(s, a, b) == [i \in 1..Len(s) |-> IF s[i] = a THEN b ELSE s[i]]

\* str.title: a letter after a character that is no letter is put in upper
\* case, every other letter in lower case
title(s) ==
    [i \in 1..Len(s) |->
        IF i = 1 \/ s[i - 1] \notin Letters THEN UpperChar(s[i]) ELSE LowerChar(s[i])]

\* the limbs of X and n more
Widen(X, n) == X \o [i \in 1..n |-> 0]

\* the nearest integer to X / 2^n, n > 0, ties to even
NearestShR(X, n) ==
    LET R == NatShR(X, n - 1)
        q == NatDivSmall(R.x, 2)
    IN  IF NatModSmall(R.x, 2) = 1 /\ (R.sticky \/ NatModSmall(q, 2) = 1)
        THEN NatAdd(q, NatOfInt(1))
        ELSE q

\* |a| * 10^d to the nearest integer, ties to even: what the 'f' format
\* prints of a finite float with d decimals
FixedNat(a, d) ==
    IF a.e >= 0
    THEN NatShL(Widen(NatMulSmall(a.m, 10^d), a.e \div 15 + 1), a.e)
    ELSE NearestShR(NatMulSmall(a.m, 10^d), 0 - a.e)

RECURSIVE DigitsOf(_)
\* the decimal digits of X, none for 0
DigitsOf(X) ==
    IF NatIsZero(X) THEN <<>>
    ELSE DigitsOf(NatDivSmall(X, 10)) \o <<DigitChar(NatModSmall(X, 10))>>

\* zeros in front up to n digits
PadLeft(ds, n) == [i \in 1..(n - Len(ds)) |-> "0"] \o ds

RECURSIVE Grouped(_)
\* the ',' option: a comma before every three digits
Grouped(ds) ==
    IF Len(ds) <= 3 THEN ds
    ELSE Grouped(SubSeq(ds, 1, Len(ds) - 3)) \o <<",">>
         \o SubSeq(ds, Len(ds) - 2, Len(ds))

\* the digits ds with a point before the last d
Pointed(ds, d, comma) ==
    (IF comma THEN Grouped(SubSeq(ds, 1, Len(ds) - d)) ELSE SubSeq(ds, 1, Len(ds) - d))
    \o <<".">> \o SubSeq(ds, Len(ds) - d + 1, Len(ds))

Sign(a) == IF a.s = 1 THEN <<"-">> ELSE <<>>

\* format(a, ',.df') when comma, format(a, '.df') otherwise
format(a, d, comma) ==
    IF a.k = "nan" THEN <<"n","a","n">>
    ELSE IF a.k = "inf" THEN Sign(a) \o <<"i","n","f">>
    ELSE Sign(a) \o Pointed(PadLeft(DigitsOf(FixedNat(a, d)), d + 1), d, comma)

\* the keys of the two mappings in the order the extractor inserts them,
\* which is the order dict.items() yields them
MetricOrder ==
    <<"revenue", "net_income", "earnings_per_share", "gross_profit",
      "operating_income", "total_assets", "total_liabilities",
      "cash_and_equivalents", "stockholders_equity">>

RatioOrder == <<"profit_margin", "return_on_assets", "debt_to_equity", "cash_ratio">>

\* the characters of each key and of each label
Spelling ==
    [revenue |-> <<"r","e","v","e","n","u","e">>,
     net_income |-> <<"n","e","t","_","i","n","c","o","m","e">>,
     earnings_per_share |-> <<"e","a","r","n","i","n","g","s","_","p","e","r","_","s","h","a","r","e">>,
     gross_profit |-> <<"g","r","o","s","s","_","p","r","o","f","i","t">>,
     operating_income |-> <<"o","p","e","r","a","t","i","n","g","_","i","n","c","o","m","e">>,
     total_assets |-> <<"t","o","t","a","l","_","a","s","s","e","t","s">>,
     total_liabilities |-> <<"t","o","t","a","l","_","l","i","a","b","i","l","i","t","i","e","s">>,
     cash_and_equivalents |-> <<"c","a","s","h","_","a","n","d","_","e","q","u","i","v","a","l","e","n","t","s">>,
     stockholders_equity |-> <<"s","t","o","c","k","h","o","l","d","e","r","s","_","e","q","u","i","t","y">>,
     profit_margin |-> <<"p","r","o","f","i","t","_","m","a","r","g","i","n">>,
     return_on_assets |-> <<"r","e","t","u","r","n","_","o","n","_","a","s","s","e","t","s">>,
     debt_to_equity |-> <<"d","e","b","t","_","t","o","_","e","q","u","i","t","y">>,
     cash_ratio |-> <<"c","a","s","h","_","r","a","t","i","o">>,
     Positive |-> <<"P","o","s","i","t","i","v","e">>,
     Negative |-> <<"N","e","g","a","t","i","v","e">>,
     Neutral |-> <<"N","e","u","t","r","a","l">>]

\* '=' * 60
HeaderRule == 60

\* '-' * 40
SectionRule == 40

\* parsed_data['risks'][:3]
ListedRisks == 3

\* risk[:100]
RiskChars == 100

Rule(c, n) == [i \in 1..n |-> c]

\* f"{parsed_data.get(key, 'N/A')}"
Shown(parsed_data, key) ==
    IF key \notin DOMAIN parsed_data THEN <<"N","/","A">>
    ELSE IF parsed_data[key] = <<"None">> THEN <<"N","o","n","e">>
    ELSE parsed_data[key]

\* parsed_data.get(key) is true: the key is there and its value is not empty
Filled(parsed_data, key) ==
    key \in DOMAIN parsed_data /\ DOMAIN parsed_data[key] # {}

\* the keys of mapping as items() yields them
items(mapping, order) == SelectSeq(order, LAMBDA k : k \in DOMAIN mapping)

HeaderLines(parsed_data) ==
    << <<"F","i","n","a","n","c","i","a","l"," ","A","n","a","l","y","s","i","s"," ","R","e","p","o","r","t">>,
       Rule("=", HeaderRule),
       <<"T","i","c","k","e","r",":"," ">> \o Shown(parsed_data, "ticker"),
       <<"F","i","l","i","n","g",":"," ">> \o Shown(parsed_data, "filing_type"),
       <<>> >>

Titled(key) == <<" "," ">> \o title(replace(Spelling[key], "_", " "))

MetricLine(key, value) == Titled(key) \o <<":"," ","$">> \o format(value, 1, TRUE) \o <<"M">>

Percentage(key) ==
    \/ Contains(Spelling[key], <<"m","a","r","g","i","n">>, 1, Len(Spelling[key]))
    \/ Contains(Spelling[key], <<"r","e","t","u","r","n">>, 1, Len(Spelling[key]))

RatioLine(key, value) ==
    Titled(key) \o <<":"," ">> \o format(value, 2, FALSE)
    \o (IF Percentage(key) THEN <<"%">> ELSE <<>>)

MetricLines(metrics, keys) ==
    [i \in 1..Len(keys) |-> MetricLine(keys[i], metrics[keys[i]])]

RatioLines(ratios, keys) ==
    [i \in 1..Len(keys) |-> RatioLine(keys[i], ratios[keys[i]])]

SentimentLines(sent) ==
    << <<" "," ","O","v","e","r","a","l","l",":"," ">> \o Spelling[sent.sentiment_label] \o <<" ","(">>
          \o format(sent.overall_sentiment, 2, FALSE) \o <<")">>,
       <<" "," ","P","o","s","i","t","i","v","e"," ","m","e","n","t","i","o","n","s",":"," ">> \o str(sent.counts.positive),
       <<" "," ","N","e","g","a","t","i","v","e"," ","m","e","n","t","i","o","n","s",":"," ">> \o str(sent.counts.negative),
       <<" "," ","U","n","c","e","r","t","a","i","n","t","y"," ","m","e","n","t","i","o","n","s",":"," ">> \o str(sent.counts.uncertainty) >>

\* a faulty list: every risk sentence, not the first three
RiskLines_all(risks) ==
    [i \in 1..Len(risks) |->
        <<" "," ">> \o str(i) \o <<"."," ">>
        \o SubSeq(risks[i], 1, Min2(RiskChars, Len(risks[i]))) \o <<".",".",".">>]

RiskLines(risks) ==
    [i \in 1..Min2(ListedRisks, Len(risks)) |->
        <<" "," ">> \o str(i) \o <<"."," ">>
        \o SubSeq(risks[i], 1, Min2(RiskChars, Len(risks[i]))) \o <<".",".",".">>]

\* a section: its heading, a rule, its lines and an empty line
Block(heading, lines) == <<heading, Rule("-", SectionRule)>> \o lines \o << <<>> >>

MetricsBlock(parsed_data) ==
    IF ~Filled(parsed_data, "metrics") THEN <<>>
    ELSE Block(<<"F","i","n","a","n","c","i","a","l"," ","M","e","t","r","i","c","s"," ","(","i","n"," ","m","i","l","l","i","o","n","s",")",":">>,
               MetricLines(parsed_data.metrics, items(parsed_data.metrics, MetricOrder)))

RatiosBlock(parsed_data) ==
    IF ~Filled(parsed_data, "ratios") THEN <<>>
    ELSE Block(<<"F","i","n","a","n","c","i","a","l"," ","R","a","t","i","o","s",":">>,
               RatioLines(parsed_data.ratios, items(parsed_data.ratios, RatioOrder)))

SentimentBlock(parsed_data) ==
    IF ~Filled(parsed_data, "sentiment") THEN <<>>
    ELSE Block(<<"S","e","n","t","i","m","e","n","t"," ","A","n","a","l","y","s","i","s",":">>, SentimentLines(parsed_data.sentiment))

RisksBlock(parsed_data) ==
    IF ~Filled(parsed_data, "risks") THEN <<>>
    ELSE Block(<<"K","e","y"," ","R","i","s","k"," ","F","a","c","t","o","r","s",":">>, RiskLines(parsed_data.risks))

RECURSIVE join(_, _)
\* sep.join(lines)
join(lines, sep) ==
    IF Len(lines) = 0 THEN <<>>
    ELSE IF Len(lines) = 1 THEN lines[1]
    ELSE lines[1] \o sep \o join(Tail(lines), sep)

generate_report(parsed_data) ==
    join(HeaderLines(parsed_data) \o MetricsBlock(parsed_data)
         \o RatiosBlock(parsed_data) \o SentimentBlock(parsed_data)
         \o RisksBlock(parsed_data), <<"\n">>)

(***************************************************************************)
(* MockSECFetcher.fetch_filing: the sample filing, character by character, *)
(* with the filing type and the ticker spliced in.                         *)
(***************************************************************************)
\* up to FORM
FilingHead ==
       <<"\n">>
    \o <<" "," "," "," "," "," "," "," ","U","N","I","T","E","D"," ","S","T","A","T","E","S"," ","S","E","C","U","R","I","T","I","E","S"," ","A","N","D"," ","E","X","C","H","A","N","G","E"," ","C","O","M","M","I","S","S","I","O","N","\n">>
    \o <<" "," "," "," "," "," "," "," ","W","a","s","h","i","n","g","t","o","n",","," ","D",".","C","."," ","2","0","5","4","9","\n">>
    \o <<" "," "," "," "," "," "," "," ","\n">>
    \o <<" "," "," "," "," "," "," "," ","F","O","R","M"," ">>

\* from the filing type to the ticker
FilingMiddle ==
       <<"\n">>
    \o <<" "," "," "," "," "," "," "," ","A","N","N","U","A","L"," ","R","E","P","O","R","T"," ","P","U","R","S","U","A","N","T"," ","T","O"," ","S","E","C","T","I","O","N"," ","1","3"," ","O","R"," ","1","5","(","d",")"," ","\n">>
    \o <<" "," "," "," "," "," "," "," ","O","F"," ","T","H","E"," ","S","E","C","U","R","I","T","I","E","S"," ","E","X","C","H","A","N","G","E"," ","A","C","T"," ","O","F"," ","1","9","3","4","\n">>
    \o <<" "," "," "," "," "," "," "," ","\n">>
    \o <<" "," "," "," "," "," "," "," ","F","o","r"," ","t","h","e"," ","f","i","s","c","a","l"," ","y","e","a","r"," ","e","n","d","e","d"," ","D","e","c","e","m","b","e","r"," ","3","1",","," ","2","0","2","3","\n">>
    \o <<" "," "," "," "," "," "," "," ","\n">>
    \o <<" "," "," "," "," "," "," "," ">>

\* from Corporation on
FilingRest ==
       <<" ","C","o","r","p","o","r","a","t","i","o","n","\n">>
    \o <<" "," "," "," "," "," "," "," ","\n">>
    \o <<" "," "," "," "," "," "," "," ","I","T","E","M"," ","1","A","."," ","R","I","S","K"," ","F","A","C","T","O","R","S","\n">>
    \o <<" "," "," "," "," "," "," "," ","\n">>
    \o <<" "," "," "," "," "," "," "," ","O","u","r"," ","b","u","s","i","n","e","s","s"," ","f","a","c","e","s"," ","s","i","g","n","i","f","i","c","a","n","t"," ","r","i","s","k","s"," ","a","n","d"," ","u","n","c","e","r","t","a","i","n","t","i","e","s","."," ","M","a","r","k","e","t"," ","c","o","n","d","i","t","i","o","n","s"," ","m","a","y"," ","\n">>
    \o <<" "," "," "," "," "," "," "," ","a","d","v","e","r","s","e","l","y"," ","a","f","f","e","c","t"," ","o","u","r"," ","o","p","e","r","a","t","i","o","n","s","."," ","C","o","m","p","e","t","i","t","i","o","n"," ","i","n"," ","o","u","r"," ","i","n","d","u","s","t","r","y"," ","r","e","m","a","i","n","s"," ","i","n","t","e","n","s","e",".","\n">>
    \o <<" "," "," "," "," "," "," "," ","R","e","g","u","l","a","t","o","r","y"," ","c","h","a","n","g","e","s"," ","c","o","u","l","d"," ","i","m","p","a","c","t"," ","o","u","r"," ","b","u","s","i","n","e","s","s"," ","m","o","d","e","l","."," ","E","c","o","n","o","m","i","c"," ","d","o","w","n","t","u","r","n","s"," ","m","a","y"," ","\n">>
    \o <<" "," "," "," "," "," "," "," ","d","e","c","r","e","a","s","e"," ","d","e","m","a","n","d"," ","f","o","r"," ","o","u","r"," ","p","r","o","d","u","c","t","s"," ","a","n","d"," ","s","e","r","v","i","c","e","s",".","\n">>
    \o <<" "," "," "," "," "," "," "," ","\n">>
    \o <<" "," "," "," "," "," "," "," ","I","T","E","M"," ","7","."," ","M","A","N","A","G","E","M","E","N","T","'","S"," ","D","I","S","C","U","S","S","I","O","N"," ","A","N","D"," ","A","N","A","L","Y","S","I","S","\n">>
    \o <<" "," "," "," "," "," "," "," ","\n">>
    \o <<" "," "," "," "," "," "," "," ","O","v","e","r","v","i","e","w","\n">>
    \o <<" "," "," "," "," "," "," "," ","\n">>
    \o <<" "," "," "," "," "," "," "," ","W","e"," ","e","x","p","e","r","i","e","n","c","e","d"," ","s","t","r","o","n","g"," ","g","r","o","w","t","h"," ","i","n"," ","f","i","s","c","a","l"," ","y","e","a","r"," ","2","0","2","3","."," ","R","e","v","e","n","u","e"," ","i","n","c","r","e","a","s","e","d"," ","1","5","%"," ","t","o"," ","\n">>
    \o <<" "," "," "," "," "," "," "," ","$","2",".","5"," ","b","i","l","l","i","o","n",","," ","d","r","i","v","e","n"," ","b","y"," ","r","o","b","u","s","t"," ","d","e","m","a","n","d"," ","i","n"," ","o","u","r"," ","c","o","r","e"," ","m","a","r","k","e","t","s","."," ","N","e","t"," ","i","n","c","o","m","e"," ","i","m","p","r","o","v","e","d"," ","\n">>
    \o <<" "," "," "," "," "," "," "," ","t","o"," ","$","4","5","0"," ","m","i","l","l","i","o","n",","," ","r","e","f","l","e","c","t","i","n","g"," ","o","p","e","r","a","t","i","o","n","a","l"," ","e","f","f","i","c","i","e","n","c","i","e","s"," ","a","n","d"," ","f","a","v","o","r","a","b","l","e"," ","m","a","r","k","e","t"," ","c","o","n","d","i","t","i","o","n","s",".","\n">>
    \o <<" "," "," "," "," "," "," "," ","\n">>
    \o <<" "," "," "," "," "," "," "," ","F","i","n","a","n","c","i","a","l"," ","H","i","g","h","l","i","g","h","t","s",":","\n">>
    \o <<" "," "," "," "," "," "," "," ","-"," ","R","e","v","e","n","u","e",":"," ","$","2",",","5","0","0"," ","m","i","l","l","i","o","n","\n">>
    \o <<" "," "," "," "," "," "," "," ","-"," ","G","r","o","s","s"," ","P","r","o","f","i","t",":"," ","$","1",",","2","0","0"," ","m","i","l","l","i","o","n"," "," ","\n">>
    \o <<" "," "," "," "," "," "," "," ","-"," ","O","p","e","r","a","t","i","n","g"," ","I","n","c","o","m","e",":"," ","$","5","8","0"," ","m","i","l","l","i","o","n","\n">>
    \o <<" "," "," "," "," "," "," "," ","-"," ","N","e","t"," ","I","n","c","o","m","e",":"," ","$","4","5","0"," ","m","i","l","l","i","o","n","\n">>
    \o <<" "," "," "," "," "," "," "," ","-"," ","E","a","r","n","i","n","g","s"," ","P","e","r"," ","S","h","a","r","e",":"," ","$","8",".","5","0","\n">>
    \o <<" "," "," "," "," "," "," "," ","-"," ","T","o","t","a","l"," ","A","s","s","e","t","s",":"," ","$","5",",","6","0","0"," ","m","i","l","l","i","o","n","\n">>
    \o <<" "," "," "," "," "," "," "," ","-"," ","T","o","t","a","l"," ","L","i","a","b","i","l","i","t","i","e","s",":"," ","$","2",",","1","0","0"," ","m","i","l","l","i","o","n","\n">>
    \o <<" "," "," "," "," "," "," "," ","-"," ","S","t","o","c","k","h","o","l","d","e","r","s"," ","E","q","u","i","t","y",":"," ","$","3",",","5","0","0"," ","m","i","l","l","i","o","n","\n">>
    \o <<" "," "," "," "," "," "," "," ","-"," ","C","a","s","h"," ","a","n","d"," ","E","q","u","i","v","a","l","e","n","t","s",":"," ","$","8","0","0"," ","m","i","l","l","i","o","n","\n">>
    \o <<" "," "," "," "," "," "," "," ","\n">>
    \o <<" "," "," "," "," "," "," "," ","O","u","r"," ","p","o","s","i","t","i","v","e"," ","m","o","m","e","n","t","u","m"," ","c","o","n","t","i","n","u","e","d"," ","t","h","r","o","u","g","h","o","u","t"," ","t","h","e"," ","y","e","a","r","."," ","W","e"," ","b","e","l","i","e","v","e"," ","m","a","r","k","e","t"," ","\n">>
    \o <<" "," "," "," "," "," "," "," ","o","p","p","o","r","t","u","n","i","t","i","e","s"," ","r","e","m","a","i","n"," ","f","a","v","o","r","a","b","l","e","."," ","H","o","w","e","v","e","r",","," ","u","n","c","e","r","t","a","i","n","t","i","e","s"," ","i","n"," ","t","h","e"," ","g","l","o","b","a","l"," ","e","c","o","n","o","m","y"," ","\n">>
    \o <<" "," "," "," "," "," "," "," ","m","a","y"," ","i","m","p","a","c","t"," ","f","u","t","u","r","e"," ","r","e","s","u","l","t","s","."," ","W","e"," ","a","n","t","i","c","i","p","a","t","e"," ","c","o","n","t","i","n","u","e","d"," ","g","r","o","w","t","h"," ","b","u","t"," ","r","e","m","a","i","n"," ","c","a","u","t","i","o","u","s"," ","\n">>
    \o <<" "," "," "," "," "," "," "," ","a","b","o","u","t"," ","p","o","t","e","n","t","i","a","l"," ","c","h","a","l","l","e","n","g","e","s",".","\n">>
    \o <<" "," "," "," "," "," "," "," ","\n">>
    \o <<" "," "," "," "," "," "," "," ","I","T","E","M"," ","8","."," ","F","I","N","A","N","C","I","A","L"," ","S","T","A","T","E","M","E","N","T","S","\n">>
    \o <<" "," "," "," "," "," "," "," ","[","F","i","n","a","n","c","i","a","l"," ","s","t","a","t","e","m","e","n","t","s"," ","w","o","u","l","d"," ","f","o","l","l","o","w","]","\n">>
    \o <<" "," "," "," "," "," "," "," ">>

fetch_filing(ticker, filing_type) ==
    FilingHead \o filing_type \o FilingMiddle \o ticker \o FilingRest

(***************************************************************************)
(* State                                                                   *)
(***************************************************************************)
VARIABLES
    patterns,         \* FinancialMetricExtractor.patterns
    lexicons,         \* SentimentAnalyzer.lexicons
    entity_patterns,  \* EntityExtractor.patterns
    text,             \* the document handed to the last operation
    op,               \* the last operation completed, or what the caller holds
    metrics,          \* what extract_metrics returned (or the caller's mapping)
    ratios,           \* what calculate_ratios returned
    sentiment,        \* what analyze_text returned
    risks,            \* what _extract_risk_factors returned
    calls,            \* the parse_filing calls so far: arguments and result
    now,              \* the clock datetime.now() reads
    sections,         \* what _extract_sections returned
    parsed_data,      \* the result record the caller holds for generate_report
    report            \* what generate_report returned

tables == <<patterns, lexicons, entity_patterns>>

vars == <<patterns, lexicons, entity_patterns, text, op, metrics, ratios,
          sentiment, risks, calls, now, sections, parsed_data, report>>

\* __init__ of the three components
InitTables ==
    /\ patterns = _load_patterns
    /\ lexicons = _load_lexicons
    /\ entity_patterns = EntityExtractor_load_patterns

\* nothing returned yet
InitResults ==
    /\ metrics = EmptyMap
    /\ ratios = EmptyMap
    /\ sentiment = EmptyMap
    /\ risks = <<>>
    /\ calls = <<>>
    /\ now = 0
    /\ sections = EmptyMap
    /\ parsed_data = EmptyMap
    /\ report = <<>>

(***************************************************************************)
(* The operations                                                          *)
(***************************************************************************)
ExtractMetrics ==
    /\ op = "text"
    /\ metrics' = extract_metrics(patterns, text)
    /\ op' = "extract_metrics"
    /\ UNCHANGED <<tables, text, ratios, sentiment, risks, calls, now, sections, parsed_data, report>>

CalculateRatios ==
    /\ op \in {"metrics", "extract_metrics"}
    /\ ratios' = calculate_ratios(metrics)
    /\ op' = "calculate_ratios"
    /\ UNCHANGED <<tables, text, metrics, sentiment, risks, calls, now, sections, parsed_data, report>>

AnalyzeText ==
    /\ op = "text"
    /\ sentiment' = analyze_text(lexicons, text)
    /\ op' = "analyze_text"
    /\ UNCHANGED <<tables, text, metrics, ratios, risks, calls, now, sections, parsed_data, report>>

ExtractRiskFactors ==
    /\ op = "text"
    /\ risks' = _extract_risk_factors(text)
    /\ op' = "_extract_risk_factors"
    /\ UNCHANGED <<tables, text, metrics, ratios, sentiment, calls, now, sections, parsed_data, report>>

ExtractSections ==
    /\ op = "text"
    /\ sections' = _extract_sections(text)
    /\ op' = "_extract_sections"
    /\ UNCHANGED <<tables, text, metrics, ratios, sentiment, risks, calls, now,
                   parsed_data, report>>

\* the parser as parse_filing finds it
Self ==
    [patterns |-> patterns, lexicons |-> lexicons, entity_patterns |-> entity_patterns]

\* the call returned r.result at clock reading d and left the parser r.self;
\* done is where this leaves the caller
Called(a, r, d, done) ==
    /\ calls' = Append(calls, [text |-> a.text, ticker |-> a.ticker,
                               filing_type |-> a.filing_type, result |-> r.result])
    /\ patterns' = r.self.patterns
    /\ lexicons' = r.self.lexicons
    /\ entity_patterns' = r.self.entity_patterns
    /\ text' = a.text
    /\ now' = d
    /\ op' = done
    /\ UNCHANGED <<metrics, ratios, sentiment, risks, sections, parsed_data, report>>

\* parse_filing(text) with the default filing_type, on the document held
ParseText ==
    /\ op = "filing"
    /\ Called([text |-> text, ticker |-> <<"None">>, filing_type |-> <<"1","0","-","K">>],
              parse_filing(Self, text, <<"None">>, <<"1","0","-","K">>, now), now,
              "parsed")

GenerateReport ==
    /\ op = "record"
    /\ report' = generate_report(parsed_data)
    /\ op' = "generate_report"
    /\ UNCHANGED <<tables, text, metrics, ratios, sentiment, risks, calls, now,
                   sections, parsed_data>>

(***************************************************************************)
(* What the callers hand in                                                *)
(***************************************************************************)
AAPL == <<"A","A","P","L">>

TenK == <<"1","0","-","K">>

TenQ == <<"1","0","-","Q">>

\* ticker = None
None == <<"None">>

\* the longest numeral is a 1 followed by MaxZeros zeros
MaxZeros == 309

Zeros(n) == [i \in 1..n |-> "0"]

Nines(n) == [i \in 1..n |-> "9"]

Labels == { <<"R","e","v","e","n","u","e">>, <<"N","e","t"," ","I","n","c","o","m","e">>, <<"T","o","t","a","l"," ","A","s","s","e","t","s">>, <<"n","e","t"," "," ","s","a","l","e","s">> }

Separators == { <<":"," ","$">>, <<" ","w","a","s"," ","1","5","%"," ","u","p"," ","a","t","\n","$">> }

Numerals == { <<"2",",","5","0","0">>, <<"5",".","6">>, <<"0">>, <<"1",".","2",".","3">>, <<".">>, <<"8",".","5","0">> }
            \cup {<<"1">> \o Zeros(n) : n \in {MaxZeros - 1, MaxZeros}}
            \cup {Nines(MaxZeros - 2)}

Suffixes == { <<>>, <<" ","m","i","l","l","i","o","n">>, <<" ","b","i","l","l","i","o","n">>, <<".","\n","I","t"," ","i","s"," ","b","i","l","l","i","o","n">> }

\* two metrics, the first with a numeral float() rejects
Malformed ==
    { <<"R","e","v","e","n","u","e",":"," ","$","1",".","2",".","3","\n","N","e","t"," ","I","n","c","o","m","e",":"," ","$","4","5","0"," ","m","i","l","l","i","o","n">>,
      <<"R","e","v","e","n","u","e",":"," ","$",".","\n","N","e","t"," ","I","n","c","o","m","e",":"," ","$","4","5","0">>,
      <<"R","e","v","e","n","u","e",":"," ","$",",","\n","T","o","t","a","l"," ","A","s","s","e","t","s",":"," ","$","5",".","6"," ","b","i","l","l","i","o","n">>,
      <<"G","r","o","s","s"," ","p","r","o","f","i","t"," ","o","f"," ","$",".",".","5"," ","m","i","l","l","i","o","n"," ","a","n","d"," ","O","p","e","r","a","t","i","n","g"," ","I","n","c","o","m","e",":"," ","$","5","8","0"," ","m","i","l","l","i","o","n">>,
      <<"R","e","v","e","n","u","e",":"," ","$","2",",","5","0","0"," ","m","i","l","l","i","o","n","\n","N","e","t"," ","I","n","c","o","m","e",":"," ","$","4","5","0"," ","b","i","l","l","i","o","n">>,
      <<"N","e","t"," ","I","n","c","o","m","e",":"," ","$","4","5","0"," ","b","i","l","l","i","o","n","\n","R","e","v","e","n","u","e",":"," ","$","2",",","5","0","0"," ","m","i","l","l","i","o","n">> }

\* up to MaxPad spaces stand between the word billion and a match
MaxPad == 45

Spaces(n) == [i \in 1..n |-> " "]

BillionBefore ==
    {<<"B","i","l","l","i","o","n">> \o Spaces(k) \o <<"N","e","t"," ","I","n","c","o","m","e",":"," ","$","4","5","0">> : k \in 0..MaxPad}

BillionAfter ==
    {<<"E","a","r","n","i","n","g","s"," ","p","e","r"," ","s","h","a","r","e",":"," ","$","8",".","5","0">> \o Spaces(k) \o <<"B","I","L","L","I","O","N">> : k \in 0..MaxPad}

\* documents for extract_metrics
MetricTexts ==
    {fetch_filing(AAPL, TenK), <<>>}
    \cup Malformed \cup BillionBefore \cup BillionAfter
    \cup {l \o s \o n \o x : l \in Labels, s \in Separators, n \in Numerals,
                             x \in Suffixes}

\* a divisor metric is a multiple of 700 up to MaxUnits * 700, or negative
MaxUnits == 1

\* a key a mapping does not hold
Absent == [k |-> "absent", s |-> 0, e |-> 0, m |-> NatZero]

NumeratorValues == {Absent, FromInt(450), Inf(0)}

\* -0.0
MinusZero == [Zero EXCEPT !.s = 1]

DivisorValues ==
    {Absent, FNeg(FromInt(2100)), MinusZero, NaN, Inf(0)}
        \cup {FromInt(700 * u) : u \in 0..MaxUnits}

\* the mapping that holds the keys f does not map to Absent
Mapping(f) == [n \in {k \in DOMAIN f : f[k] # Absent} |-> f[n]]

\* mappings for calculate_ratios
MetricMappings ==
    {Mapping(n @@ d @@ ("total_liabilities" :> b)) :
        n \in [{"net_income", "cash_and_equivalents"} -> NumeratorValues],
        d \in [{"revenue", "total_assets", "stockholders_equity"} -> DivisorValues],
        b \in DivisorValues \cup {Inf(0)}}

\* a document names each category's word up to MaxCount times
MaxCount == 4

RECURSIVE Repeat(_, _)
Repeat(s, n) == IF n = 0 THEN <<>> ELSE s \o Repeat(s, n - 1)

\* documents for analyze_text
SentimentTexts ==
    {Repeat(<<"g","a","i","n"," ">>, p) \o Repeat(<<"L","o","s","s"," ">>, n) \o Repeat(<<"M","A","Y"," ">>, u) :
        p \in 0..MaxCount, n \in 0..MaxCount, u \in 0..MaxCount}
    \cup { <<" ","\n","\t"," ">>, <<"T","h","e"," ","q","u","a","r","t","e","r"," ","w","a","s"," ","f","i","n","e",".">>, <<"e","s","t","i","m","a","t","e","s","t","i","m","a","t","e">>,
           <<"S","u","c","c","e","s","s","u","c","c","e","s","s"," ","i","s"," ","u","n","c","e","r","t","a","i","n">>, fetch_filing(AAPL, TenK) }

\* a document holds up to MaxSentences numbered sentences
MaxSentences == 20

\* the k-th numbered sentence: more than fifty characters, one keyword
Numbered(k) ==
    <<" ","I","t","e","m"," ">> \o <<DigitChar(k \div 10), DigitChar(k % 10)>>
    \o <<" ","p","o","s","e","s"," ","a"," ","m","a","t","e","r","i","a","l"," ","R","I","S","K"," ","t","o"," ","o","p","e","r","a","t","i","o","n","s"," ","a","n","d"," ","t","o"," ","r","e","s","u","l","t","s">>

\* fifty characters with a keyword, and fifty-one
Fifty == <<"A"," ","b","o","u","n","d","a","r","y"," ","c","a","s","e"," ","w","h","o","s","e"," ","r","i","s","k"," ","w","o","r","d","i","n","g"," ","h","a","s"," ","f","i","f","t","y"," ","c","h","a","r","s">>

FiftyOne == <<"A"," ","b","o","u","n","d","a","r","y"," ","c","a","s","e"," ","w","h","o","s","e"," ","r","i","s","k"," ","w","o","r","d","i","n","g"," ","i","s"," ","o","n","e"," ","t","o","o"," ","l","o","n","g","x">>

\* what stands before each numbered sentence, and what ends it
Fillers == << <<>>,
              <<"N","o"," ","r","i","s","k","!">>,
              <<" ","T","h","e"," ","o","u","t","l","o","o","k"," ","f","o","r"," ","t","h","e"," ","n","e","x","t"," ","f","i","s","c","a","l"," ","y","e","a","r"," ","i","s"," ","d","e","s","c","r","i","b","e","d"," ","i","n"," ","t","h","e"," ","n","o","t","e","s"," ","b","e","l","o","w","?","!">>,
              <<" ">> \o Fifty \o <<"."," ">> \o FiftyOne \o <<"?">> >>

Marks == << <<"."," ">>, <<"!">>, <<"?","!">>, <<".",".",".">> >>

RECURSIVE Sentences(_, _)
Sentences(n, f) ==
    IF n = 0 THEN <<>>
    ELSE Sentences(n - 1, f) \o Fillers[f] \o Numbered(n) \o Marks[f]

\* documents for _extract_risk_factors
RiskTexts ==
    {Sentences(n, f) : n \in 0..MaxSentences, f \in 1..Len(Fillers)}
    \cup {Fifty, FiftyOne, <<" "," ","\n">>, fetch_filing(AAPL, TenK)}

\* a parser serves up to MaxCalls calls
MaxCalls == 3

\* a short filing: an MD&A section, metrics, entities and a risk sentence
Brief ==
    <<"A","c","m","e"," ","W","i","d","g","e","t","s"," ","I","n","c","."," ","1","0","-","K"," ","f","o","r"," ","D","e","c","e","m","b","e","r"," ","3","1",","," ","2","0","2","3",".","\n","I","T","E","M"," ","7","."," ","R","e","v","e","n","u","e"," ","w","a","s"," ","$","9","0","0">>
    \o <<" ","m","i","l","l","i","o","n",","," ","a"," ","s","t","r","o","n","g"," ","g","a","i","n"," ","o","f"," ","1","2",".","5","%"," ","d","e","s","p","i","t","e"," ","o","n","e"," ","l","o","s","s",".","\n","N","e","t"," ","i","n","c","o","m","e",":"," ","$","9","0">>
    \o <<" ","m","i","l","l","i","o","n","."," ","T","h","e"," ","u","n","c","e","r","t","a","i","n","t","y"," ","a","b","o","u","t"," ","s","u","p","p","l","y"," ","r","e","m","a","i","n","s"," ","a"," ","r","i","s","k"," ","t","o"," ","t","h","e"," ","g","r","o","w","t","h"," ","o","f">>
    \o <<" ","o","u","r"," ","b","u","s","i","n","e","s","s","!","\n","I","T","E","M"," ","8","."," ","F","i","n","a","n","c","i","a","l"," ","S","t","a","t","e","m","e","n","t","s","\n">>

\* the calls a client makes
ParseArgs ==
    { [text |-> <<>>, ticker |-> None, filing_type |-> TenK],
      [text |-> <<" ","\n","\t","\r"," ">>, ticker |-> AAPL, filing_type |-> TenQ],
      [text |-> Brief, ticker |-> AAPL, filing_type |-> TenK] }

\* the heading and the closing heading of the risk factor section
RiskMarker == <<"I","T","E","M"," ","1","A","."," ","R","I","S","K"," ","F","A","C","T","O","R","S">>

RiskEnd == <<"I","T","E","M"," ","1","B">>

\* the content of a section is a paragraph up to MaxParagraphs times
MaxParagraphs == 3

Paragraphs == { <<"\n","O","u","r"," ","s","u","p","p","l","y"," ","c","h","a","i","n"," ","m","a","y"," ","f","a","i","l",","," ","w","h","i","c","h"," ","i","s"," ","a"," ","r","i","s","k",".","\n">>,
                <<" ","W","e"," ","d","e","p","e","n","d"," ","o","n"," ","a"," ","f","e","w"," ","c","u","s","t","o","m","e","r","s","."," ">>,
                <<"x">> }

SectionContents == {Repeat(b, k) : b \in Paragraphs, k \in 1..MaxParagraphs}

\* documents for _extract_sections
SectionTexts ==
    {f \o h \o c \o e :
        f \in { <<>>, <<"P","A","R","T"," ","I","\n">> },
        h \in { RiskMarker, <<"I","t","e","m"," "," ","1","a",".","\n","R","i","s","k"," ","F","a","c","t","o","r","s">>, <<"R","i","s","k"," ","F","a","c","t","o","r","s">> },
        c \in SectionContents,
        e \in { RiskEnd, <<"I","t","e","m"," ","2","."," ","P","r","o","p","e","r","t","i","e","s">>, <<>> }}
    \cup {RiskMarker \o RiskEnd, Brief, fetch_filing(AAPL, TenK), <<>>}

\* n characters of padding
Pad(n) == [i \in 1..n |-> "x"]

\* what follows the padding: a lexicon word, a metric, a date and a risk
Beyond ==
    <<"g","a","i","n","."," ","R","e","v","e","n","u","e",":"," ","$","9","0","0"," ","m","i","l","l","i","o","n"," ","o","n"," ","M","a","r","c","h"," ","3",","," ","2","0","2","4","."," ","T","h","e"," ","u","n","c","e","r","t","a","i","n","t","y"," ","a","b","o","u","t">>
    \o <<" ","s","u","p","p","l","y"," ","r","e","m","a","i","n","s"," ","a"," ","r","i","s","k"," ","t","o"," ","t","h","e"," ","g","r","o","w","t","h"," ","o","f"," ","o","u","r"," ","b","u","s","i","n","e","s","s","!">>

\* the word gain ends on the cut, or up to MaxShift characters after it
MaxShift == 1

LongTexts == {Pad(FirstChars - 4 + d) \o Beyond : d \in 0..MaxShift}

\* an MD&A section longer than the cut, a lexicon word at its end
LongSection ==
    <<"S","t","r","o","n","g"," ","g","a","i","n","."," ","I","T","E","M"," ","7","."," ">> \o Pad(FirstChars) \o <<" ","l","o","s","s"," ","I","T","E","M"," ","8","."," ","m","a","y">>

\* an MD&A section amid lexicon words
MdaTexts ==
    {f \o <<"I","T","E","M"," ","7","."," ","M","a","n","a","g","e","m","e","n","t"," ","D","i","s","c","u","s","s","i","o","n","."," ">> \o Repeat(<<"L","o","s","s"," ">>, n)
       \o <<"I","T","E","M"," ","8","."," ">> \o b :
        f \in { <<>>, <<"S","t","r","o","n","g"," ","g","a","i","n","."," ">> }, n \in 0..MaxCount,
        b \in { <<>>, <<"G","r","o","w","t","h"," ","m","a","y"," ","f","o","l","l","o","w",".">> }}

\* documents for parse_filing
FilingTexts ==
    LongTexts \cup {LongSection, Brief, fetch_filing(AAPL, TenK)}
    \cup MdaTexts \cup SentimentTexts

\* figures a filing states
SampleFigures ==
    [revenue |-> FromInt(2500), net_income |-> FromInt(450),
     earnings_per_share |-> float(<<"8",".","5","0">>), total_assets |-> FromInt(5600),
     total_liabilities |-> FromInt(2100), stockholders_equity |-> FromInt(3500),
     cash_and_equivalents |-> Inf(0)]

\* a result record lists up to MaxListed risk sentences
MaxListed == 5

\* the k-th sentence, made RiskChars + k - 2 characters long
RiskOf(k) == Numbered(k) \o Pad(RiskChars + k - 2 - Len(Numbered(k)))

RiskLists ==
    {[k \in 1..n |-> RiskOf(k)] : n \in 0..MaxListed}
    \cup {[k \in 1..n |-> strip(Numbered(k))] : n \in 1..MaxListed}

NeutralSentiment == analyze_text(_load_lexicons, <<>>)

\* the fields a record may hold; an empty function stands for a missing key
Fields(key, values) == {EmptyMap} \cup {key :> v : v \in values}

\* result records for generate_report
ReportRecords ==
    {t @@ f @@ m @@ r @@ s @@ k :
        t \in Fields("ticker", {AAPL, None}),
        f \in Fields("filing_type", {TenK}),
        m \in Fields("metrics", {EmptyMap, SampleFigures}),
        r \in Fields("ratios", {EmptyMap, calculate_ratios(SampleFigures)}),
        s \in {"sentiment" :> v : v \in {EmptyMap, NeutralSentiment}},
        k \in {"risks" :> v : v \in RiskLists}}
    \cup {parse_filing([patterns |-> _load_patterns, lexicons |-> _load_lexicons,
                        entity_patterns |-> EntityExtractor_load_patterns],
                       d, AAPL, TenK, 0).result :
             d \in {Brief, fetch_filing(AAPL, TenK)}}

(***************************************************************************)
(* Specifications: one for each way the program is driven                  *)
(***************************************************************************)
\* a caller holding a document for the metric extractor
InitMetrics == InitTables /\ InitResults /\ op = "text" /\ text \in MetricTexts

NextMetrics == ExtractMetrics \/ CalculateRatios

SpecMetrics == InitMetrics /\ [][NextMetrics]_vars

\* a caller holding a metric mapping
InitRatios ==
    /\ InitTables
    /\ text = <<>>
    /\ op = "metrics"
    /\ metrics \in MetricMappings
    /\ ratios = EmptyMap
    /\ sentiment = EmptyMap
    /\ risks = <<>>
    /\ calls = <<>>
    /\ now = 0
    /\ sections = EmptyMap
    /\ parsed_data = EmptyMap
    /\ report = <<>>

NextRatios == CalculateRatios

SpecRatios == InitRatios /\ [][NextRatios]_vars

\* a caller holding a document for the sentiment analyzer
InitSentiment == InitTables /\ InitResults /\ op = "text" /\ text \in SentimentTexts

NextSentiment == AnalyzeText

SpecSentiment == InitSentiment /\ [][NextSentiment]_vars

\* a caller holding a document for the risk sentence selector
InitRisks == InitTables /\ InitResults /\ op = "text" /\ text \in RiskTexts

NextRisks == ExtractRiskFactors

SpecRisks == InitRisks /\ [][NextRisks]_vars

\* a caller holding a document for the section splitter
InitSections == InitTables /\ InitResults /\ op = "text" /\ text \in SectionTexts

NextSections == ExtractSections

SpecSections == InitSections /\ [][NextSections]_vars

\* a client of one SECFilingParser; the clock may advance between calls
ParseFiling ==
    /\ op \in {"new", "parse_filing"}
    /\ Len(calls) < MaxCalls
    /\ \E a \in ParseArgs, d \in {now, now + 1} :
          Called(a, parse_filing(Self, a.text, a.ticker, a.filing_type, d), d,
                 "parse_filing")

InitParse == InitTables /\ InitResults /\ op = "new" /\ text = <<>>

NextParse == ParseFiling

SpecParse == InitParse /\ [][NextParse]_vars

\* a caller holding a filing to parse
InitFiling == InitTables /\ InitResults /\ op = "filing" /\ text \in FilingTexts

NextFiling == ParseText

SpecFiling == InitFiling /\ [][NextFiling]_vars

\* a caller holding a result record
InitReport ==
    /\ InitTables
    /\ text = <<>>
    /\ op = "record"
    /\ metrics = EmptyMap
    /\ ratios = EmptyMap
    /\ sentiment = EmptyMap
    /\ risks = <<>>
    /\ calls = <<>>
    /\ now = 0
    /\ sections = EmptyMap
    /\ parsed_data \in ReportRecords
    /\ report = <<>>

NextReport == GenerateReport

SpecReport == InitReport /\ [][NextReport]_vars

Init ==
    \/ InitMetrics
    \/ InitRatios
    \/ InitSentiment
    \/ InitRisks
    \/ InitSections
    \/ InitFiling
    \/ InitReport
    \/ InitParse

Next ==
    \/ ExtractMetrics
    \/ CalculateRatios
    \/ AnalyzeText
    \/ ExtractRiskFactors
    \/ ExtractSections
    \/ ParseText
    \/ GenerateReport
    \/ ParseFiling

Spec == Init /\ [][Next]_vars

(***************************************************************************)
(* Properties                                                              *)
(***************************************************************************)
RatioNames == {"profit_margin", "return_on_assets", "debt_to_equity", "cash_ratio"}

\* |x - y| <= tol
Near(x, y, tol) ==
    /\ IsFinite(x)
    /\ ~FGt(FSub(x, y), tol)
    /\ ~FGt(FSub(y, x), tol)

\* 0 <= x <= 1
InUnit(x) == IsFinite(x) /\ (IsZero(x) \/ x.s = 0) /\ ~FGt(x, One)

\* x > 0, read off the representation
StrictlyPositive(x) ==
    /\ x.k \in {"fin", "inf"}
    /\ x.s = 0
    /\ x.k = "fin" => \E i \in 1..Len(x.m) : x.m[i] > 0

\* the metrics the sample filing states
SampleMetrics ==
    [revenue |-> FromInt(2500),
     net_income |-> FromInt(450),
     gross_profit |-> FromInt(1200),
     operating_income |-> FromInt(580),
     earnings_per_share |-> float(<<"8",".","5","0">>),
     total_assets |-> FromInt(5600),
     total_liabilities |-> FromInt(2100),
     stockholders_equity |-> FromInt(3500),
     cash_and_equivalents |-> FromInt(800)]

\* C1: extract_metrics and then calculate_ratios on the sample filing of
\* MockSECFetcher.fetch_filing yield exactly the metrics revenue 2500.0,
\* net_income 450.0, gross_profit 1200.0, operating_income 580.0,
\* earnings_per_share 8.50, total_assets 5600.0, total_liabilities 2100.0,
\* stockholders_equity 3500.0, cash_and_equivalents 800.0 and the ratios
\* profit_margin 18.0, return_on_assets 8.04 and cash_ratio 0.381 (both
\* within 0.01), debt_to_equity 0.6.
C1_SampleFiling ==
    (op = "calculate_ratios" /\ text = fetch_filing(AAPL, TenK)) =>
        /\ metrics = SampleMetrics
        /\ DOMAIN ratios = RatioNames
        /\ ratios["profit_margin"] = FromInt(18)
        /\ Near(ratios["return_on_assets"], float(<<"8",".","0","4">>), float(<<"0",".","0","1">>))
        /\ ratios["debt_to_equity"] = float(<<"0",".","6">>)
        /\ Near(ratios["cash_ratio"], float(<<"0",".","3","8","1">>), float(<<"0",".","0","1">>))

\* the ratio's inputs are present and its divisor is strictly positive
Computable(m, num, den) ==
    Has(m, num) /\ Has(m, den) /\ StrictlyPositive(m[den])

\* C2: calculate_ratios raises no division by zero, and its output holds a
\* ratio if and only if both input metrics of the ratio are present and the
\* divisor is strictly greater than 0; otherwise the key is absent.
C2_RatioPresence ==
    op = "calculate_ratios" =>
        /\ ratios # ZeroDivisionError
        /\ Has(ratios, "profit_margin")
              <=> Computable(metrics, "net_income", "revenue")
        /\ Has(ratios, "return_on_assets")
              <=> Computable(metrics, "net_income", "total_assets")
        /\ Has(ratios, "debt_to_equity")
              <=> Computable(metrics, "total_liabilities", "stockholders_equity")
        /\ Has(ratios, "cash_ratio")
              <=> Computable(metrics, "cash_and_equivalents", "total_liabilities")

\* {net_income: 450, revenue: 0} and more: no profit_margin, yet a cash_ratio
C2_Witness ==
    /\ op = "calculate_ratios"
    /\ Has(metrics, "net_income")
    /\ Has(metrics, "revenue")
    /\ metrics["revenue"] = Zero
    /\ ~Has(ratios, "profit_margin")
    /\ Has(ratios, "cash_ratio")

\* C3: every ratio calculate_ratios emits has the value of its formula:
\* profit_margin = net_income / revenue * 100, return_on_assets =
\* net_income / total_assets * 100, debt_to_equity = total_liabilities /
\* stockholders_equity, cash_ratio = cash_and_equivalents /
\* total_liabilities; and the output holds no key but these four.
C3_RatioFormulas ==
    op = "calculate_ratios" =>
        /\ DOMAIN ratios \subseteq RatioNames
        /\ Has(ratios, "profit_margin") =>
              ratios["profit_margin"]
                 = FMulSmall(FDiv(metrics["net_income"], metrics["revenue"]), 100)
        /\ Has(ratios, "return_on_assets") =>
              ratios["return_on_assets"]
                 = FMulSmall(FDiv(metrics["net_income"], metrics["total_assets"]), 100)
        /\ Has(ratios, "debt_to_equity") =>
              ratios["debt_to_equity"]
                 = FDiv(metrics["total_liabilities"], metrics["stockholders_equity"])
        /\ Has(ratios, "cash_ratio") =>
              ratios["cash_ratio"]
                 = FDiv(metrics["cash_and_equivalents"], metrics["total_liabilities"])

\* all four ratios emitted: 450 / 700 * 100 and 700 / 700
C3_Witness ==
    /\ op = "calculate_ratios"
    /\ DOMAIN ratios = RatioNames
    /\ metrics["net_income"] = FromInt(450)
    /\ metrics["revenue"] = FromInt(700)
    /\ Near(ratios["profit_margin"], FromInt(64), One)
    /\ ratios["debt_to_equity"] = One

\* positive + negative + uncertainty, as sum() adds them
ScoreSum(scores) ==
    FAdd(FAdd(scores["positive"], scores["negative"]), scores["uncertainty"])

\* each score lies in [0,1] and, when the total is not 0, is count / total
ScoresAreQuotients(s) ==
    /\ \A c \in DOMAIN s.scores : InUnit(s.scores[c])
    /\ Total(s.counts) > 0 =>
          \A c \in DOMAIN s.scores :
              s.scores[c] = FDiv(FromInt(s.counts[c]), FromInt(Total(s.counts)))

\* 2^-52, the gap between 1.0 and the next float
Epsilon == RoundPack(0, NatOfInt(1), 0 - 52, FALSE)

\* C4 as stated: for every text each score of analyze_text lies in [0,1],
\* and when the lexicon total is greater than 0 each score equals
\* category_count / total_count and the three scores sum to 1.
C4_ScoresSumToOne ==
    op = "analyze_text" =>
        /\ ScoresAreQuotients(sentiment)
        /\ Total(sentiment.counts) > 0 => ScoreSum(sentiment.scores) = One

\* C4: for every text each score of analyze_text lies in [0,1], and when the
\* lexicon total is greater than 0 each score is the float quotient
\* category_count / total_count and the three scores sum to 1 up to
\* rounding: the sum differs from 1 by 2^-52 at most.
C4_ScoresSumNearOne ==
    op = "analyze_text" =>
        /\ ScoresAreQuotients(sentiment)
        /\ Total(sentiment.counts) > 0 =>
              Near(ScoreSum(sentiment.scores), One, Epsilon)

\* counts 1, 4, 1: the scores sum to 1 - 2^-53
C4_Witness ==
    /\ op = "analyze_text"
    /\ sentiment.counts = [positive |-> 1, negative |-> 4, uncertainty |-> 1]
    /\ ScoreSum(sentiment.scores) # One
    /\ Near(ScoreSum(sentiment.scores), One, Epsilon)

\* no word of the three lexicons occurs in the lower-cased text
NoLexiconWord(t) ==
    \A c \in DOMAIN _load_lexicons :
        \A k \in 1..Len(_load_lexicons[c]) :
            ~Contains(lower(t), _load_lexicons[c][k], 1, Len(t))

\* C5: for every text in which no lexicon word occurs, analyze_text returns
\* the three counts 0, the three scores 0.0, overall_sentiment 0.5 and the
\* label Neutral.
C5_NoMatchNeutral ==
    (op = "analyze_text" /\ NoLexiconWord(text)) =>
        /\ sentiment.counts = [positive |-> 0, negative |-> 0, uncertainty |-> 0]
        /\ sentiment.scores = [positive |-> Zero, negative |-> Zero, uncertainty |-> Zero]
        /\ sentiment.overall_sentiment = float(<<"0",".","5">>)
        /\ sentiment.sentiment_label = "Neutral"

C5_Witness ==
    /\ op = "analyze_text"
    /\ text = <<"T","h","e"," ","q","u","a","r","t","e","r"," ","w","a","s"," ","f","i","n","e",".">>
    /\ NoLexiconWord(text)
    /\ sentiment.sentiment_label = "Neutral"

\* C6: for every text with a lexicon total other than 0, overall_sentiment
\* is (positive score - negative score + 1) / 2 and lies in [0,1], and the
\* label is Positive exactly when overall_sentiment > 0.6, Negative exactly
\* when it is < 0.4, and Neutral otherwise, the values 0.4 and 0.6 included.
C6_OverallAndLabel ==
    (op = "analyze_text" /\ Total(sentiment.counts) # 0) =>
        /\ sentiment.overall_sentiment
              = FDiv(FAdd(FSub(sentiment.scores["positive"],
                               sentiment.scores["negative"]), FromInt(1)),
                     FromInt(2))
        /\ InUnit(sentiment.overall_sentiment)
        /\ sentiment.sentiment_label \in {"Positive", "Negative", "Neutral"}
        /\ sentiment.sentiment_label = "Positive"
              <=> FGt(sentiment.overall_sentiment, float(<<"0",".","6">>))
        /\ sentiment.sentiment_label = "Negative"
              <=> FLt(sentiment.overall_sentiment, float(<<"0",".","4">>))

\* counts 3, 2, 0: overall_sentiment is 0.6 itself, and the label Neutral
C6_Witness ==
    /\ op = "analyze_text"
    /\ Total(sentiment.counts) # 0
    /\ sentiment.overall_sentiment = float(<<"0",".","6">>)
    /\ sentiment.sentiment_label = "Neutral"

\* a sentence qualifies: a keyword in its lower-cased form, and more than
\* fifty characters once trimmed
Qualifies(sentence) ==
    /\ \E w \in { <<"r","i","s","k">>, <<"u","n","c","e","r","t","a","i","n","t","y">>, <<"a","d","v","e","r","s","e">>, <<"c","h","a","l","l","e","n","g","e">>, <<"c","o","n","c","e","r","n">> } :
          Contains(lower(sentence), w, 1, Len(sentence))
    /\ Len(strip(sentence)) > 50

\* which of the sentences qualify
Qualifying(sentences) == {i \in 1..Len(sentences) : Qualifies(sentences[i])}

\* selected lists, trimmed and in order, the first ten of the sentences Q
FirstTen(selected, sentences, Q) ==
    /\ Len(selected) = Min2(10, Cardinality(Q))
    /\ \A j \in 1..Len(selected) :
          \E i \in Q : /\ Cardinality({x \in Q : x <= i}) = j
                       /\ selected[j] = strip(sentences[i])

\* C7: for every text _extract_risk_factors returns at most 10 sentences:
\* the first 10 qualifying sentences (all of them when there are fewer) in
\* document order, where a sentence qualifies when its lower-cased form
\* contains risk, uncertainty, adverse, challenge or concern and its trimmed
\* length exceeds 50; of 20 qualifying sentences it returns the first 10.
C7_FirstTenRisks ==
    op = "_extract_risk_factors" =>
        /\ Len(risks) <= 10
        /\ FirstTen(risks, split(text), Qualifying(split(text)))

\* twenty qualifying sentences, ten returned
C7_Witness ==
    /\ op = "_extract_risk_factors"
    /\ Cardinality(Qualifying(split(text))) = 20
    /\ Len(risks) = 10
    /\ risks[10] = strip(Numbered(10))

WhitespaceOnly(t) == \A i \in 1..Len(t) : t[i] \in Whitespace

\* the result is empty throughout, with the neutral sentiment
EmptyResult(r) ==
    /\ r # ZeroDivisionError
    /\ r.metrics = EmptyMap
    /\ r.ratios = EmptyMap
    /\ r.risks = <<>>
    /\ r.sections = EmptyMap
    /\ DOMAIN r.entities = {"company", "date", "money", "percentage"}
    /\ \A e \in DOMAIN r.entities : r.entities[e] = {}
    /\ r.sentiment.overall_sentiment = float(<<"0",".","5">>)
    /\ r.sentiment.sentiment_label = "Neutral"

\* C8: on an empty or whitespace-only text parse_filing does not raise, and
\* it returns empty metrics, ratios, risks and section summary, every entity
\* class empty, overall_sentiment 0.5 and the label Neutral.
C8_EmptyInput ==
    \A i \in 1..Len(calls) :
        WhitespaceOnly(calls[i].text) => EmptyResult(calls[i].result)

\* a call on the empty text and a call on a text of white space
C8_Witness ==
    /\ \E i \in 1..Len(calls) : calls[i].text = <<>>
    /\ \E i \in 1..Len(calls) :
          /\ Len(calls[i].text) > 0
          /\ WhitespaceOnly(calls[i].text)
          /\ EmptyResult(calls[i].result)

SameArguments(c, d) ==
    /\ c.text = d.text
    /\ c.ticker = d.ticker
    /\ c.filing_type = d.filing_type

\* both calls raised, or they returned the same but for parsed_date
SameOutcome(r, s) ==
    IF r = ZeroDivisionError \/ s = ZeroDivisionError THEN r = s
    ELSE /\ r.metrics = s.metrics
         /\ r.ratios = s.ratios
         /\ r.sentiment = s.sentiment
         /\ r.entities = s.entities
         /\ r.risks = s.risks

\* C9: of the parse_filing calls made on one parser, any two with the same
\* text, ticker and filing_type return the same metrics, ratios, sentiment,
\* entities (as sets) and risks, whatever was called in between; only
\* parsed_date may differ; and no call changes the pattern tables or the
\* lexicons.
C9_Idempotent ==
    /\ \A i \in 1..Len(calls) : \A j \in 1..Len(calls) :
          SameArguments(calls[i], calls[j])
             => SameOutcome(calls[i].result, calls[j].result)
    /\ patterns = _load_patterns
    /\ lexicons = _load_lexicons
    /\ entity_patterns = EntityExtractor_load_patterns

\* the same filing parsed twice, another call in between, at different times
C9_Witness ==
    /\ Len(calls) = 3
    /\ calls[1].text = Brief
    /\ SameArguments(calls[1], calls[3])
    /\ ~SameArguments(calls[1], calls[2])
    /\ calls[1].result.parsed_date # calls[3].result.parsed_date
    /\ calls[1].result.risks # <<>>
    /\ calls[1].result.risks = calls[3].result.risks

\* C10: every value extract_metrics stores is a finite float, neither NaN
\* nor an infinity, whatever digits the pattern captured.
C10_FiniteMetrics ==
    \A n \in DOMAIN metrics : IsFinite(metrics[n])

\* C11: of a text that consists of "ITEM 1A. RISK FACTORS", a content and
\* "ITEM 1B", _extract_sections stores under risk_factors exactly the
\* content between the two, and nothing of the heading itself.
C11_RiskSection ==
    op = "_extract_sections" =>
        \A c \in SectionContents :
            text = RiskMarker \o c \o RiskEnd =>
                /\ Has(sections, "risk_factors")
                /\ sections["risk_factors"] = c

\* the pattern of metric n matches the text
Matched(n) == search(_load_patterns[n], text) # NoMatch

\* group 1 of the match of metric n, its commas removed
Captured(n) ==
    RemoveChar(Slice(text, search(_load_patterns[n], text).gs,
                     search(_load_patterns[n], text).ge - 1), ",")

\* digits with at most one point among them, and one digit at least
WellFormed(s) ==
    /\ \A i \in 1..Len(s) : s[i] \in Digits \cup {"."}
    /\ Cardinality({i \in 1..Len(s) : s[i] = "."}) <= 1
    /\ \E i \in 1..Len(s) : s[i] \in Digits

\* C12: a metric name is a key of the result of extract_metrics if and only
\* if its pattern matched the text and the captured numeral, its commas
\* removed, parsed as a float; a malformed numeral ("1.2.3", ".") leaves the
\* metric out, nothing raised and no 0 stored, and the other metrics are
\* extracted all the same.
C12_StoredIffParsed ==
    op = "extract_metrics" =>
        /\ metrics # ValueError
        /\ DOMAIN metrics \subseteq MetricNames
        /\ \A n \in MetricNames :
              Has(metrics, n) <=> (Matched(n) /\ WellFormed(Captured(n)))

\* revenue captured "1.2.3": no revenue, and net_income 450.0 all the same
C12_Witness ==
    /\ op = "extract_metrics"
    /\ Matched("revenue")
    /\ Captured("revenue") = <<"1",".","2",".","3">>
    /\ ~Has(metrics, "revenue")
    /\ Has(metrics, "net_income")
    /\ metrics["net_income"] = FromInt(450)

\* the first and the last position of text[max(0, start - 50) : end + 20]
WindowFirst(n) == Max2(1, search(_load_patterns[n], text).start - 50)

WindowLast(n) == Min2(Len(text), search(_load_patterns[n], text).end - 1 + 20)

\* "billion", in any case, lies within the window of metric n
BillionInWindow(n) ==
    \E i \in WindowFirst(n)..(WindowLast(n) - 6) :
        lower(SubSeq(text, i, i + 6)) = <<"b","i","l","l","i","o","n">>

ExcerptOf(found, t) ==
    IF "mda" \in DOMAIN found THEN found["mda"]
    ELSE SubSeq(t, 1, IF Len(t) < 5000 THEN Len(t) ELSE 5000)

Excerpt(t) == ExcerptOf(_extract_sections(t), t)

\* the parts of the result r of parse_filing on the text t
FromExcerpt(r, t) ==
    /\ r.sentiment = analyze_text(_load_lexicons, Excerpt(t))
    /\ r.metrics = extract_metrics(_load_patterns, t)
    /\ r.entities = extract_entities(EntityExtractor_load_patterns, t)
    /\ r.risks = _extract_risk_factors(t)
    /\ r.ratios = calculate_ratios(r.metrics)

\* C14: parse_filing computes the sentiment over the MD&A section whenever
\* _extract_sections found one, and over the first 5000 characters of the
\* text otherwise; metrics, entities and risks over the whole text; and the
\* ratios from the metrics mapping it places in the result.
C14_SentimentExcerpt ==
    \A i \in 1..Len(calls) :
        /\ calls[i].result # ZeroDivisionError
        /\ FromExcerpt(calls[i].result, calls[i].text)

\* no MD&A section, and the word gain cut by the 5000th character: it is
\* not counted, while the metric and the risk beyond the cut are found
C14_Witness ==
    /\ Len(calls) = 1
    /\ Len(calls[1].text) > 5000
    /\ ~Has(calls[1].result.sections, "mda")
    /\ SubSeq(calls[1].text, 4998, 5001) = <<"g","a","i","n">>
    /\ calls[1].result.sentiment.counts.positive = 0
    /\ Has(calls[1].result.metrics, "revenue")
    /\ Len(calls[1].result.risks) = 1

\* the string w stands at position i of s
At(s, i, w) == i + Len(w) - 1 <= Len(s) /\ SubSeq(s, i, i + Len(w) - 1) = w

\* where w stands in s
Places(s, w) == {i \in 1..Len(s) : At(s, i, w)}

\* the fields of the record and the headings of their sections, in order
ReportFields == <<"metrics", "ratios", "sentiment", "risks">>

Headings ==
    << <<"\n","F","i","n","a","n","c","i","a","l"," ","M","e","t","r","i","c","s"," ","(","i","n"," ","m","i","l","l","i","o","n","s",")",":","\n">>,
       <<"\n","F","i","n","a","n","c","i","a","l"," ","R","a","t","i","o","s",":","\n">>,
       <<"\n","S","e","n","t","i","m","e","n","t"," ","A","n","a","l","y","s","i","s",":","\n">>,
       <<"\n","K","e","y"," ","R","i","s","k"," ","F","a","c","t","o","r","s",":","\n">> >>

\* the field is there and is not empty
NonEmpty(record, field) == field \in DOMAIN record /\ DOMAIN record[field] # {}

RECURSIVE Listed(_, _, _)
\* the risks from the i-th to the n-th, each numbered, cut to 100 characters,
\* followed by an ellipsis and ending its line
Listed(rs, i, n) ==
    IF i > n THEN <<>>
    ELSE <<" "," ">> \o <<DigitChar(i)>> \o <<"."," ">>
         \o SubSeq(rs[i], 1, IF Len(rs[i]) < 100 THEN Len(rs[i]) ELSE 100)
         \o <<".",".",".","\n">> \o Listed(rs, i + 1, n)

\* the risk section of the risks rs
RiskSection(rs) ==
    <<"\n","K","e","y"," ","R","i","s","k"," ","F","a","c","t","o","r","s",":","\n","-","-","-","-","-","-","-","-","-","-","-","-","-","-","-","-","-","-","-","-","-","-","-","-","-","-","-","-","-","-","-","-","-","-","-","-","-","-","-","-","\n">>
    \o Listed(rs, 1, IF Len(rs) < 3 THEN Len(rs) ELSE 3)

\* C15: for every result record generate_report emits the metrics, ratios,
\* sentiment and risk sections each only when the field of the record is
\* not empty, in the order header, metrics, ratios, sentiment, risks; the
\* risk section lists the first 3 risk sentences at most, each cut to 100
\* characters at most and followed by an ellipsis.
C15_ReportLayout ==
    op = "generate_report" =>
        /\ At(report, 1, <<"F","i","n","a","n","c","i","a","l"," ","A","n","a","l","y","s","i","s"," ","R","e","p","o","r","t","\n">>)
        /\ \A j \in 1..4 :
              /\ Places(report, Headings[j]) # {}
                    <=> NonEmpty(parsed_data, ReportFields[j])
              /\ Cardinality(Places(report, Headings[j])) <= 1
              /\ \A p \in Places(report, Headings[j]) :
                    /\ \E q \in Places(report, <<"\n","F","i","l","i","n","g",":"," ">>) : q < p
                    /\ \A k \in (j + 1)..4 :
                          \A q \in Places(report, Headings[k]) : p < q
        /\ NonEmpty(parsed_data, "risks") =>
              At(report, Len(report) - Len(RiskSection(parsed_data.risks)) + 1,
                 RiskSection(parsed_data.risks))

\* all four sections, and five risks of which the third is cut to 100
\* characters and the last two are left out
C15_Witness ==
    /\ op = "generate_report"
    /\ \A j \in 1..4 : NonEmpty(parsed_data, ReportFields[j])
    /\ Len(parsed_data.risks) = 5
    /\ Len(parsed_data.risks[3]) = 101
    /\ Places(report, <<"\n"," "," ","3","."," ">>) # {}
    /\ Places(report, <<"\n"," "," ","4","."," ">>) = {}
    /\ Places(report, SubSeq(parsed_data.risks[3], 1, 100) \o <<".",".",".","\n">>) # {}
    /\ Places(report, parsed_data.risks[3]) = {}

=============================================================================
